---- MODULE Spec2Model ----
(***************************************************************************)
(* A model of the order fulfilment core of pyoseo/oseoserver:              *)
(*   - Batch.status(), the rollup of item statuses (models.py);            *)
(*   - the celery tasks of tasks.py that process a product order: the      *)
(*     fan-out of one job per order item, the chord that joins them, the   *)
(*     recomputation of the order status and the packaging of the batch;   *)
(*   - the sweeps of tasks.py that delete the files of the batches.        *)
(*   - the batch available notifications of tasks.py, and                  *)
(*     Batch.get_completed_files, the access to the results of a batch.    *)
(* Names of tasks.py such as models.CustomizableItem.FAILED are read as    *)
(* the status of that name.                                                *)
(***************************************************************************)
EXTENDS Naturals, Integers, Sequences, FiniteSets, TLC

(***************************************************************************)
(* Bounds of the model.                                                    *)
(***************************************************************************)
MaxChildren == 3
MaxItems == 2
MaxUrls == 1
MaxTime == 1
MaxRecompute == 1
MaxSpecs == 3
MaxExports == 2
MaxDownloads == 2
MaxCalls == 2
MaxSweeps == 2
MaxLifecycleSweeps == 1
MaxSweepTime == 2
MaxDispatches == 2
MaxResultCalls == 1

(***************************************************************************)
(* The status vocabulary and the ordinals of Batch.status().               *)
(***************************************************************************)
SUBMITTED == "Submitted"
ACCEPTED == "Accepted"
IN_PRODUCTION == "InProduction"
SUSPENDED == "Suspended"
CANCELLED == "Cancelled"
COMPLETED == "Completed"
FAILED == "Failed"
TERMINATED == "Terminated"
DOWNLOADED == "Downloaded"

Statuses ==
    {SUBMITTED, ACCEPTED, IN_PRODUCTION, SUSPENDED, CANCELLED, COMPLETED,
     FAILED, TERMINATED, DOWNLOADED}

\* Python's None, the result of Batch.status() for a batch without items.
None == "None"

\* The value of a variable a specification does not use yet.
Unset == "unset"

\* The dictionary `order` of Batch.status().
order ==
    [st \in Statuses |->
        CASE st = SUBMITTED -> 0
          [] st = ACCEPTED -> 1
          [] st = IN_PRODUCTION -> 2
          [] st = SUSPENDED -> 3
          [] st = CANCELLED -> 4
          [] st = COMPLETED -> 5
          [] st = FAILED -> 6
          [] st = TERMINATED -> 7
          [] st = DOWNLOADED -> 8]

(***************************************************************************)
(* Batch.status().  item_statuses is the set built from the items; iter is *)
(* the order in which Python iterates over that set (list(item_statuses)   *)
(* and the for loop see the same order).                                   *)
(***************************************************************************)
Range(seq) == {seq[k] : k \in DOMAIN seq}

\* The sequences that enumerate the set S once each: the possible iteration
\* orders of a Python set.
IterationOrders(S) ==
    {seq \in [1..Cardinality(S) -> S] : Range(seq) = S}

\* One iteration order, for the callers that need a value and not a choice.
SomeOrder(S) == CHOOSE seq \in IterationOrders(S) : TRUE

\* for st in item_statuses: if order[st] < order[status]: status = st
RECURSIVE LowestLoop(_, _)
LowestLoop(status, rest) ==
    IF rest = <<>> THEN status
    ELSE LowestLoop(IF order[Head(rest)] < order[status]
                        THEN Head(rest) ELSE status,
                    Tail(rest))

StatusMutantNoFailedRule(item_statuses, iter) ==
    IF Cardinality(item_statuses) = 1
        THEN CHOOSE st \in item_statuses : TRUE
    ELSE IF item_statuses # {}
        THEN LowestLoop(iter[1], iter)
    ELSE None

StatusMutantSingleUnset(item_statuses, iter) ==
    IF FAILED \in item_statuses THEN FAILED
    ELSE IF Cardinality(item_statuses) > 1
        THEN LowestLoop(iter[1], iter)
    ELSE None

StatusMutantHighest(item_statuses, iter) ==
    IF FAILED \in item_statuses THEN FAILED
    ELSE IF item_statuses # {}
        THEN CHOOSE st \in item_statuses :
                \A other \in item_statuses : order[other] <= order[st]
    ELSE None

StatusMutantEmptySubmitted(item_statuses, iter) ==
    IF FAILED \in item_statuses THEN FAILED
    ELSE IF Cardinality(item_statuses) = 1
        THEN CHOOSE st \in item_statuses : TRUE
    ELSE IF item_statuses # {}
        THEN LowestLoop(iter[1], iter)
    ELSE SUBMITTED

Status(item_statuses, iter) ==
    IF FAILED \in item_statuses THEN FAILED
    ELSE IF Cardinality(item_statuses) = 1
        THEN CHOOSE st \in item_statuses : TRUE
    ELSE IF item_statuses # {}
        THEN LowestLoop(iter[1], iter)
    ELSE None

(***************************************************************************)
(* The entity store.  A product order has exactly one batch               *)
(* (order.batches.get()); the batch carries the id of its order.  Batch 2  *)
(* is a batch of an order that is not processed here: its items are the    *)
(* order items outside the batch under study.                              *)
(***************************************************************************)
Orders == {1}
Batches == {1, 2}
Items == 1..MaxItems
NoTime == 0 - 1

ONLINE_DATA_ACCESS == "onlinedataaccess"
ONLINE_DATA_DELIVERY == "onlinedatadelivery"
MEDIA_DELIVERY == "mediadelivery"
DeliveryOptions == {ONLINE_DATA_ACCESS, ONLINE_DATA_DELIVERY, MEDIA_DELIVERY}

\* Order.packaging: blank, or a packaging of the Packaging enumeration.
Packagings == {"", "zip"}

\* order_type.item_availability_days, a setting of the order type.
AvailabilityChoices == {1, 2}

\* What the item processor can answer: the URLs ("" is a false value of
\* Python), the details, the text of an exception.
Urls == {"", "a"}
UrlLists == UNION {[1..n -> Urls] : n \in 0..MaxUrls}
Details == {"Pretending to be a file"}
ProcessorErrors == {"processing error"}
PackagingErrors == {"packaging error"}
MailErrors == {"mail error"}
PackedUrl == "fake_url_for_the_package"

EmptyInfo == [text |-> "", report |-> <<>>]

BatchOf(o) == o
OrderOf(b) == b

VARIABLES
    children,     \* rollup: the statuses of the order items of a batch
    iteration,    \* rollup: the iteration order of the last call
    rollup,       \* rollup: the result of the last call of Batch.status()
    now,          \* datetime.now(pytz.utc), in days
    item_availability_days,  \* of the order type of the product orders
    orders,       \* ProductOrder rows
    items,        \* OrderItem rows
    files,        \* OseoFile rows
    fileSeq,      \* per item, the number of OseoFile rows created so far
    batchTasks,   \* per order, the process_product_order_batch tasks
    chords,       \* per order, the chords chain(group, update...) applied
    updates,      \* per order, the update_product_order_status tasks
    outbox,       \* per order, the e-mails sent
    order_item_spec,  \* admission: the collections of the item specs given
    admission,    \* admission: the call of SubscriptionOrder.create_batch
    scheduled,    \* admission: the item jobs scheduled for the new batch
    delivery_details, \* delivery: the fields of the delivery option rows
    exported,     \* delivery: per item, what export_delivery_options gave
    oseo_file,    \* deletion: an OseoFile row and the preference of its user
    can_delete,   \* deletion: the results of OseoFile.can_be_deleted()
    order_type_enabled,  \* sweeps: OrderType.enabled of the product orders
    sweeps,       \* sweeps: the sweep tasks run, with what they dispatched
    deletions,    \* sweeps: the delete_batch tasks
    clean_calls,  \* sweeps: the calls of processor.clean_files
    alerts,       \* sweeps: the cleaning error e-mails sent
    notifications,   \* per order, the notify_user_..._batch_available tasks
    completed_files  \* the calls of Batch.get_completed_files

rollupVars == <<children, iteration, rollup>>

storeVars == <<orders, items, files, fileSeq>>

taskVars == <<batchTasks, chords, updates>>

pipelineVars ==
    <<now, item_availability_days, orders, items, files, fileSeq,
      batchTasks, chords, updates, outbox>>

admissionVars == <<order_item_spec, admission, scheduled>>

deliveryVars == <<delivery_details, exported>>

deletionVars == <<oseo_file, can_delete>>

sweepVars == <<order_type_enabled, sweeps, deletions, clean_calls, alerts>>

serviceVars == <<notifications, completed_files>>

\* What the processing of product orders does not touch.
sideVars ==
    <<admissionVars, deliveryVars, deletionVars, sweepVars, serviceVars>>

vars == <<rollupVars, pipelineVars, sideVars>>

\* batch.order_items.all()
OrderItems(b) == {i \in Items : items[i].batch = b}

\* item.files.all()
ItemFiles(i) == {f \in files : f.order_item = i}

BatchFiles(b) == {f \in files : f.order_item \in OrderItems(b)}

\* batch.status() on the rows of the store.
BatchStatus(b) ==
    LET item_statuses == {items[i].status : i \in OrderItems(b)}
    IN  Status(item_statuses, SomeOrder(item_statuses))

(***************************************************************************)
(* _process_batch: one signature per order item of the batch, the task     *)
(* chosen by the delivery option of the item or, when the item has none,   *)
(* of the order.                                                           *)
(***************************************************************************)
SelectedDeliveryOptionMutantDefault(i) ==
    IF items[i].delivery # None
        THEN items[i].delivery
    ELSE IF orders[OrderOf(items[i].batch)].delivery # None
        THEN orders[OrderOf(items[i].batch)].delivery
    ELSE ONLINE_DATA_ACCESS

SelectedDeliveryOption(i) ==
    IF items[i].delivery # None
        THEN items[i].delivery
        ELSE orders[OrderOf(items[i].batch)].delivery

TaskFor(option) ==
    CASE option = ONLINE_DATA_ACCESS -> "process_online_data_access_item"
      [] option = ONLINE_DATA_DELIVERY -> "process_online_data_delivery_item"
      [] option = MEDIA_DELIVERY -> "process_media_delivery_item"

\* order.selected_delivery_option raises DoesNotExist.
process_batch_raises(b) ==
    \E i \in OrderItems(b) : SelectedDeliveryOption(i) = None

NoRow == [status |-> None, additional_status_info |-> "", completed_on |-> NoTime]

NoOutcome == [kind |-> "none", urls |-> <<>>, text |-> ""]

NewJob(task) ==
    [task |-> task, state |-> "queued", order_item |-> NoRow,
     outcome |-> NoOutcome]

process_batch_mutant_all_items(b) ==
    [i \in Items |->
        NewJob(IF i \in OrderItems(b)
                  THEN TaskFor(SelectedDeliveryOption(i))
                  ELSE "process_online_data_access_item")]

process_batch(b) ==
    [i \in OrderItems(b) |-> NewJob(TaskFor(SelectedDeliveryOption(i)))]

(***************************************************************************)
(* Celery's chord: chain(group, task) is a chord whose body runs once all  *)
(* the tasks of the group have returned; a task of the group that raises   *)
(* makes the chord fail and the body is never applied.                     *)
(***************************************************************************)
Finished(job) == job.state \in {"succeeded", "failed"}

HeaderDoneMutantAny(jobs) == \E i \in DOMAIN jobs : Finished(jobs[i])

HeaderDone(jobs) == \A i \in DOMAIN jobs : Finished(jobs[i])

HeaderSucceeded(jobs) == \A i \in DOMAIN jobs : jobs[i].state # "failed"

NoOrder ==
    [status |-> None, additional_status_info |-> EmptyInfo,
     completed_on |-> NoTime, packaging |-> "", delivery |-> None]

NewUpdate(chord, pc) ==
    [chord |-> chord, pc |-> pc, order |-> NoOrder, old_order_status |-> None,
     packed |-> ""]

\* The update_product_order_status task that is the body of chord k.
BodyOf(o, k) == CHOOSE u \in DOMAIN updates[o] : updates[o][u].chord = k

UpdateOver(upd) == upd.pc \in {"done", "failed", "error", "lost"}

UpdateRunning(upd) == upd.pc \in {"packaging", "replacing", "finishing"}

\* No task of the order is queued or running.
Quiescent(o) ==
    /\ \A t \in DOMAIN batchTasks[o] : batchTasks[o][t] # "queued"
    /\ \A k \in DOMAIN chords[o] : HeaderDone(chords[o][k].jobs)
    /\ \A u \in DOMAIN updates[o] : UpdateOver(updates[o][u])

(***************************************************************************)
(* The clock.                                                              *)
(***************************************************************************)
Tick ==
    /\ now < MaxTime
    /\ now' = now + 1
    /\ UNCHANGED <<rollupVars, sideVars,
                   item_availability_days, storeVars, taskVars,
                   outbox>>

(***************************************************************************)
(* process_product_order                                                   *)
(***************************************************************************)
process_product_order(o) ==
    /\ batchTasks[o] = <<>>
    /\ orders' = [orders EXCEPT
            ![o].status = IN_PRODUCTION,
            ![o].additional_status_info =
                [text |-> "Order is being processed", report |-> <<>>]]
    /\ batchTasks' = [batchTasks EXCEPT ![o] = Append(@, "queued")]
    /\ UNCHANGED <<rollupVars, sideVars,
                   now, item_availability_days, items, files,
                   fileSeq, chords, updates, outbox>>

(***************************************************************************)
(* process_product_order_batch (notify_user is False)                      *)
(***************************************************************************)
\* The state of the body when the chord is applied: it waits for the header.
\* A chord with an empty header: the body is applied at once, or never,
\* with the version of celery.
EmptyHeaderBody == {"queued", "lost"}

ChordBodyMutantNoChain(jobs) == {"queued"}

ChordBody(jobs) == IF DOMAIN jobs = {} THEN EmptyHeaderBody ELSE {"waiting"}

process_product_order_batch(o, t) ==
    /\ t \in DOMAIN batchTasks[o]
    /\ batchTasks[o][t] = "queued"
    /\ \/ /\ process_batch_raises(BatchOf(o))
          /\ batchTasks' = [batchTasks EXCEPT ![o][t] = "raised"]
          /\ UNCHANGED <<chords, updates>>
       \/ /\ ~process_batch_raises(BatchOf(o))
          /\ LET celery_group == process_batch(BatchOf(o))
                 k == Len(chords[o]) + 1
             IN  /\ chords' = [chords EXCEPT
                        ![o] = Append(@, [jobs |-> celery_group])]
                 /\ \E pc \in ChordBody(celery_group) :
                        updates' = [updates EXCEPT
                            ![o] = Append(@, NewUpdate(k, pc))]
          /\ batchTasks' = [batchTasks EXCEPT ![o][t] = "done"]
    /\ UNCHANGED <<rollupVars, sideVars,
                   now, item_availability_days, storeVars, outbox>>

\* The chord is unlocked: the body is applied, or the chord fails.
chord_unlock(o, k) ==
    /\ k \in DOMAIN chords[o]
    /\ updates[o][BodyOf(o, k)].pc = "waiting"
    /\ HeaderDone(chords[o][k].jobs)
    /\ updates' = [updates EXCEPT ![o][BodyOf(o, k)].pc =
            IF HeaderSucceeded(chords[o][k].jobs) THEN "queued" ELSE "error"]
    /\ UNCHANGED <<rollupVars, sideVars,
                   now, item_availability_days, storeVars,
                   batchTasks, chords, outbox>>

(***************************************************************************)
(* process_online_data_access_item                                         *)
(***************************************************************************)
AnyUrl(urls) == \E n \in DOMAIN urls : urls[n] # ""

Outcomes ==
    {[kind |-> "raised", urls |-> <<>>, text |-> e] : e \in ProcessorErrors}
    \cup {[kind |-> "returned", urls |-> u, text |-> d] :
            u \in UrlLists, d \in Details}

StartedItemMutantKeepStatus(row) ==
    [row EXCEPT !.additional_status_info = "Item is being processed"]

\* Lines 121-124: the row is read, set IN_PRODUCTION and saved.
StartedItem(row) ==
    [row EXCEPT !.status = IN_PRODUCTION,
                !.additional_status_info = "Item is being processed"]

process_online_data_access_item_start(o, k, i) ==
    /\ k \in DOMAIN chords[o]
    /\ i \in DOMAIN chords[o][k].jobs
    /\ chords[o][k].jobs[i].task = "process_online_data_access_item"
    /\ chords[o][k].jobs[i].state = "queued"
    /\ LET order_item == StartedItem(
                [status |-> items[i].status,
                 additional_status_info |-> items[i].additional_status_info,
                 completed_on |-> items[i].completed_on])
       IN  /\ items' = [items EXCEPT
                  ![i].status = order_item.status,
                  ![i].additional_status_info =
                      order_item.additional_status_info,
                  ![i].completed_on = order_item.completed_on]
           /\ chords' = [chords EXCEPT
                  ![o][k].jobs[i].state = "running",
                  ![o][k].jobs[i].order_item = order_item]
    /\ UNCHANGED <<rollupVars, sideVars,
                   now, item_availability_days, orders, files,
                   fileSeq, batchTasks, updates, outbox>>

ProcessedItemMutantSwallow(order_item, outcome, t) ==
    IF outcome.kind = "raised"
        THEN [order_item EXCEPT !.additional_status_info = outcome.text]
    ELSE IF AnyUrl(outcome.urls)
        THEN [order_item EXCEPT !.additional_status_info = outcome.text,
                                !.status = COMPLETED,
                                !.completed_on = t]
    ELSE [order_item EXCEPT !.additional_status_info = outcome.text,
                            !.status = FAILED]

\* Lines 125-160: what the try block makes of the copy of the row.
ProcessedItem(order_item, outcome, t) ==
    IF outcome.kind = "raised"
        THEN [order_item EXCEPT !.status = FAILED,
                                !.additional_status_info = outcome.text]
    ELSE IF AnyUrl(outcome.urls)
        THEN [order_item EXCEPT !.additional_status_info = outcome.text,
                                !.status = COMPLETED,
                                !.completed_on = t]
    ELSE [order_item EXCEPT !.additional_status_info = outcome.text,
                            !.status = FAILED]

CreatedFilesMutantNotAvailable(i, outcome, t, days, seq) ==
    IF outcome.kind = "returned" /\ AnyUrl(outcome.urls)
        THEN {[id |-> <<i, seq + n>>, url |-> outcome.urls[n],
               available |-> FALSE, order_item |-> i,
               expires_on |-> t + days] : n \in DOMAIN outcome.urls}
        ELSE {}

CreatedFilesMutantNoWindow(i, outcome, t, days, seq) ==
    IF outcome.kind = "returned" /\ AnyUrl(outcome.urls)
        THEN {[id |-> <<i, seq + n>>, url |-> outcome.urls[n],
               available |-> TRUE, order_item |-> i,
               expires_on |-> t] : n \in DOMAIN outcome.urls}
        ELSE {}

CreatedFilesMutantOwner(i, outcome, t, days, seq) ==
    IF outcome.kind = "returned" /\ AnyUrl(outcome.urls)
        THEN {[id |-> <<i, seq + n>>, url |-> outcome.urls[n],
               available |-> TRUE, order_item |-> 1,
               expires_on |-> t + days] : n \in DOMAIN outcome.urls}
        ELSE {}

\* Lines 147-151: one OseoFile per URL.
CreatedFiles(i, outcome, t, days, seq) ==
    IF outcome.kind = "returned" /\ AnyUrl(outcome.urls)
        THEN {[id |-> <<i, seq + n>>, url |-> outcome.urls[n],
               available |-> TRUE, order_item |-> i,
               expires_on |-> t + days] : n \in DOMAIN outcome.urls}
        ELSE {}

process_online_data_access_item_run(o, k, i) ==
    /\ k \in DOMAIN chords[o]
    /\ i \in DOMAIN chords[o][k].jobs
    /\ chords[o][k].jobs[i].task = "process_online_data_access_item"
    /\ chords[o][k].jobs[i].state = "running"
    /\ \E outcome \in Outcomes :
        LET order_item ==
                ProcessedItem(chords[o][k].jobs[i].order_item, outcome, now)
            created ==
                CreatedFiles(i, outcome, now, item_availability_days,
                             fileSeq[i])
        IN  /\ files' = files \cup created
            /\ fileSeq' = [fileSeq EXCEPT ![i] = @ + Cardinality(created)]
            /\ items' = [items EXCEPT
                   ![i].status = order_item.status,
                   ![i].additional_status_info =
                       order_item.additional_status_info,
                   ![i].completed_on = order_item.completed_on]
            /\ chords' = [chords EXCEPT
                   ![o][k].jobs[i].state = "succeeded",
                   ![o][k].jobs[i].order_item = order_item,
                   ![o][k].jobs[i].outcome = outcome]
    /\ UNCHANGED <<rollupVars, sideVars,
                   now, item_availability_days, orders,
                   batchTasks, updates, outbox>>

(***************************************************************************)
(* process_online_data_delivery_item, process_media_delivery_item:         *)
(* raise NotImplementedError                                               *)
(***************************************************************************)
RaiseNotImplemented(o, k, i, task) ==
    /\ k \in DOMAIN chords[o]
    /\ i \in DOMAIN chords[o][k].jobs
    /\ chords[o][k].jobs[i].task = task
    /\ chords[o][k].jobs[i].state = "queued"
    /\ chords' = [chords EXCEPT ![o][k].jobs[i].state = "failed"]
    /\ UNCHANGED <<rollupVars, sideVars,
                   now, item_availability_days, storeVars,
                   batchTasks, updates, outbox>>

process_online_data_delivery_item(o, k, i) ==
    RaiseNotImplemented(o, k, i, "process_online_data_delivery_item")

process_media_delivery_item(o, k, i) ==
    RaiseNotImplemented(o, k, i, "process_media_delivery_item")

(***************************************************************************)
(* update_product_order_status                                             *)
(***************************************************************************)
SavedOrderMutantStickyFailed(o, order_row) ==
    [orders EXCEPT ![o].status = IF orders[o].status = FAILED
                                     THEN FAILED ELSE order_row.status,
                   ![o].additional_status_info =
                        order_row.additional_status_info,
                   ![o].completed_on = order_row.completed_on,
                   ![o].packaging = order_row.packaging]

\* order.save() from the copy of the row the task holds.
SavedOrder(o, order_row) ==
    [orders EXCEPT ![o].status = order_row.status,
                   ![o].additional_status_info = order_row.additional_status_info,
                   ![o].completed_on = order_row.completed_on,
                   ![o].packaging = order_row.packaging]

\* Lines 193-197: the order is read and the batch status decides on packaging.
update_product_order_status_start(o, u) ==
    /\ u \in DOMAIN updates[o]
    /\ updates[o][u].pc = "queued"
    /\ updates' = [updates EXCEPT
            ![o][u].order = orders[o],
            ![o][u].old_order_status = orders[o].status,
            ![o][u].pc =
                IF BatchStatus(BatchOf(o)) = COMPLETED
                   /\ orders[o].packaging # ""
                    THEN "packaging" ELSE "finishing"]
    /\ UNCHANGED <<rollupVars, sideVars,
                   now, item_availability_days, storeVars,
                   batchTasks, chords, outbox>>

package_batch_call_mutant_delete_first(o, u) ==
    /\ u \in DOMAIN updates[o]
    /\ updates[o][u].pc = "packaging"
    /\ \/ /\ updates' = [updates EXCEPT ![o][u].pc = "replacing",
                                       ![o][u].packed = PackedUrl]
          /\ UNCHANGED <<orders, outbox, files>>
       \/ \E e \in PackagingErrors :
            LET order_row == [updates[o][u].order EXCEPT
                            !.status = FAILED,
                            !.additional_status_info =
                                [text |-> e, report |-> <<>>]]
            IN  /\ outbox' = [outbox EXCEPT ![o] =
                        Append(@, [kind |-> "batch_packaging_failed",
                                   text |-> e, report |-> <<>>])]
                /\ orders' = SavedOrder(o, order_row)
                /\ files' = files \ BatchFiles(BatchOf(o))
                /\ updates' = [updates EXCEPT ![o][u].pc = "failed",
                                              ![o][u].order = order_row]
    /\ UNCHANGED <<rollupVars, sideVars,
                   now, item_availability_days, items,
                   fileSeq, batchTasks, chords>>

\* _package_batch, lines 364-384: the processor packages the files of the
\* batch.  When it raises, an e-mail is sent (which may raise in turn), and
\* update_product_order_status saves the order as FAILED and raises.
package_batch_call(o, u) ==
    /\ u \in DOMAIN updates[o]
    /\ updates[o][u].pc = "packaging"
    /\ \/ /\ updates' = [updates EXCEPT ![o][u].pc = "replacing",
                                       ![o][u].packed = PackedUrl]
          /\ UNCHANGED <<orders, outbox>>
       \/ \E e \in PackagingErrors, sent \in BOOLEAN, mail \in MailErrors :
            LET raised == IF sent THEN e ELSE mail
                order_row == [updates[o][u].order EXCEPT
                            !.status = FAILED,
                            !.additional_status_info =
                                [text |-> raised, report |-> <<>>]]
            IN  /\ outbox' = [outbox EXCEPT ![o] =
                        IF sent
                            THEN Append(@, [kind |-> "batch_packaging_failed",
                                            text |-> e, report |-> <<>>])
                            ELSE @]
                /\ orders' = SavedOrder(o, order_row)
                /\ updates' = [updates EXCEPT ![o][u].pc = "failed",
                                              ![o][u].order = order_row]
    /\ UNCHANGED <<rollupVars, sideVars,
                   now, item_availability_days, items, files,
                   fileSeq, batchTasks, chords>>

\* _package_batch, lines 385-391: for every item of the batch, its files are
\* deleted and one file with the URL of the package is created.
PackagedFilesMutantReuseId(b, packed, t, days) ==
    (files \ BatchFiles(b)) \cup
        {[id |-> <<i, fileSeq[i]>>, url |-> packed, available |-> TRUE,
          order_item |-> i, expires_on |-> t + days] : i \in OrderItems(b)}

PackagedFilesMutantKeepOld(b, packed, t, days) ==
    files \cup
        {[id |-> <<i, fileSeq[i] + 1>>, url |-> packed, available |-> TRUE,
          order_item |-> i, expires_on |-> t + days] : i \in OrderItems(b)}

PackagedFiles(b, packed, t, days) ==
    (files \ BatchFiles(b)) \cup
        {[id |-> <<i, fileSeq[i] + 1>>, url |-> packed, available |-> TRUE,
          order_item |-> i, expires_on |-> t + days] : i \in OrderItems(b)}

package_batch_replace(o, u) ==
    /\ u \in DOMAIN updates[o]
    /\ updates[o][u].pc = "replacing"
    /\ files' = PackagedFiles(BatchOf(o), updates[o][u].packed, now,
                              item_availability_days)
    /\ fileSeq' = [i \in Items |->
            IF i \in OrderItems(BatchOf(o)) THEN fileSeq[i] + 1
                                            ELSE fileSeq[i]]
    /\ updates' = [updates EXCEPT ![o][u].pc = "finishing"]
    /\ UNCHANGED <<rollupVars, sideVars,
                   now, item_availability_days, orders, items,
                   batchTasks, chords, outbox>>

FailedItemsMessageMutantAll(b, n) ==
    IF n = 0 THEN <<>>
    ELSE [m \in 1..n |-> <<m, items[m].additional_status_info>>]

\* Lines 213-223: one entry for every FAILED order item of the batch.
RECURSIVE FailedItemsMessage(_, _)
FailedItemsMessage(b, n) ==
    IF n = 0 THEN <<>>
    ELSE LET msg == FailedItemsMessage(b, n - 1)
         IN  IF n \in OrderItems(b) /\ items[n].status = FAILED
                THEN Append(msg, <<n, items[n].additional_status_info>>)
                ELSE msg

\* Lines 205-228.  Saving an order whose status is None violates the NOT NULL
\* constraint of the column: the save raises.
update_product_order_status_finish(o, u) ==
    /\ u \in DOMAIN updates[o]
    /\ updates[o][u].pc = "finishing"
    /\ LET old_order_status == updates[o][u].old_order_status
           new_order_status == BatchStatus(BatchOf(o))
           msg == FailedItemsMessage(BatchOf(o), MaxItems)
           order_row ==
               IF new_order_status = COMPLETED
                   THEN [updates[o][u].order EXCEPT
                            !.status = new_order_status,
                            !.completed_on = now,
                            !.additional_status_info = EmptyInfo]
               ELSE IF new_order_status = FAILED
                   THEN [updates[o][u].order EXCEPT
                            !.status = new_order_status,
                            !.additional_status_info =
                                [text |-> "Order has failed.", report |-> msg]]
               ELSE [updates[o][u].order EXCEPT !.status = new_order_status]
       IN  IF old_order_status # new_order_status \/ old_order_status = FAILED
           THEN
               \/ /\ new_order_status = FAILED
                  /\ \E sent \in BOOLEAN :
                        IF sent
                        THEN /\ outbox' = [outbox EXCEPT ![o] =
                                    Append(@, [kind |-> "order_failed",
                                               text |-> "", report |-> msg])]
                             /\ orders' = SavedOrder(o, order_row)
                             /\ updates' = [updates EXCEPT
                                    ![o][u].pc = "done",
                                    ![o][u].order = order_row]
                        ELSE /\ updates' = [updates EXCEPT
                                    ![o][u].pc = "failed",
                                    ![o][u].order = order_row]
                             /\ UNCHANGED <<orders, outbox>>
               \/ /\ new_order_status = None
                  /\ updates' = [updates EXCEPT ![o][u].pc = "failed",
                                                ![o][u].order = order_row]
                  /\ UNCHANGED <<orders, outbox>>
               \/ /\ new_order_status \notin {FAILED, None}
                  /\ orders' = SavedOrder(o, order_row)
                  /\ updates' = [updates EXCEPT ![o][u].pc = "done",
                                                ![o][u].order = order_row]
                  /\ UNCHANGED outbox
           ELSE /\ updates' = [updates EXCEPT ![o][u].pc = "done"]
                /\ UNCHANGED <<orders, outbox>>
    /\ UNCHANGED <<rollupVars, sideVars,
                   now, item_availability_days, items, files,
                   fileSeq, batchTasks, chords>>

\* update_product_order_status is called again for the order, once nothing
\* of the order is queued or running.
Standalone(o) == {u \in DOMAIN updates[o] : updates[o][u].chord = 0}

Recompute(o) ==
    /\ Quiescent(o)
    /\ Cardinality(Standalone(o)) < MaxRecompute
    /\ updates' = [updates EXCEPT ![o] = Append(@, NewUpdate(0, "queued"))]
    /\ UNCHANGED <<rollupVars, sideVars,
                   now, item_availability_days, storeVars,
                   batchTasks, chords, outbox>>

(***************************************************************************)
(* SubscriptionOrder.create_batch: the admission of the items of a         *)
(* subscription batch.  An item spec is modelled by its collection.        *)
(***************************************************************************)
\* The names of the collections of the settings.
Collections == {"c1", "c2", "c3"}

ItemSpecs == UNION {[1..n -> Collections] : n \in 0..MaxSpecs}

\* No call of create_batch yet.  order_items are the collections of the
\* order items of the new batch, attached tells whether the batch is one of
\* the batches of the order, dispatched whether its processing was applied.
NoAdmission ==
    [pc |-> "idle", next |-> 1, order_items |-> <<>>, attached |-> FALSE,
     dispatched |-> FALSE, error |-> <<>>]

AdmissionUnused ==
    /\ order_item_spec = <<>>
    /\ admission = NoAdmission
    /\ scheduled = <<>>

(***************************************************************************)
(* The selected delivery options.  A customizable item (an order item, an  *)
(* order) has at most one SelectedDeliveryOption row; the kind of its      *)
(* option is the delivery field of the item or order, the other fields of  *)
(* the row are in delivery_details.                                        *)
(***************************************************************************)
Owners ==
    {<<"item", i>> : i \in Items} \cup {<<"order", o>> : o \in Orders}

Protocols == {"ftp", "http"}

CopiesChoices == {1, 2}

DeliveryDetails ==
    [copies : CopiesChoices, annotation : {""}, special_instructions : {""},
     delivery_fee : {0}, protocol : Protocols]

DefaultDetails ==
    [copies |-> 1, annotation |-> "", special_instructions |-> "",
     delivery_fee |-> 0, protocol |-> "ftp"]

DeliveryUnused ==
    /\ delivery_details = [w \in Owners |-> DefaultDetails]
    /\ exported = [i \in Items |-> <<>>]

(***************************************************************************)
(* OseoFile.can_be_deleted: one file row, with the preference              *)
(* delete_downloaded_files of the user of its order.                       *)
(***************************************************************************)
OseoFileRows ==
    [expires_on : 0..(MaxTime + 1), downloads : 0..MaxDownloads,
     delete_downloaded_files : BOOLEAN]

DeletionUnused ==
    /\ oseo_file = [expires_on |-> 0, downloads |-> 0,
                    delete_downloaded_files |-> FALSE]
    /\ can_delete = <<>>

(***************************************************************************)
(* The sweeps: delete_expired_order_items, delete_failed_orders and the    *)
(* delete_batch tasks they apply.                                          *)
(***************************************************************************)
SweepUnused ==
    /\ order_type_enabled = TRUE
    /\ sweeps = <<>>
    /\ deletions = <<>>
    /\ clean_calls = <<>>
    /\ alerts = <<>>

(***************************************************************************)
(* The batch available notifications, and the access to the results of a  *)
(* batch.                                                                  *)
(***************************************************************************)
ServiceUnused ==
    /\ notifications = [o \in Orders |-> <<>>]
    /\ completed_files = <<>>

SideUnused ==
    /\ AdmissionUnused
    /\ DeliveryUnused
    /\ DeletionUnused
    /\ SweepUnused
    /\ ServiceUnused

(***************************************************************************)
(* The processing of product orders.                                       *)
(***************************************************************************)
ItemRows ==
    {[batch |-> b, delivery |-> d, status |-> SUBMITTED,
      additional_status_info |-> "", completed_on |-> NoTime] :
        b \in Batches, d \in DeliveryOptions \cup {None}}

OrderRows ==
    {[status |-> SUBMITTED, additional_status_info |-> EmptyInfo,
      completed_on |-> NoTime, packaging |-> p, delivery |-> d] :
        p \in Packagings, d \in DeliveryOptions \cup {None}}

RollupUnused ==
    /\ children = <<>>
    /\ iteration = <<>>
    /\ rollup = Unset

Init ==
    /\ RollupUnused
    /\ SideUnused
    /\ now = 0
    /\ item_availability_days \in AvailabilityChoices
    /\ orders \in [Orders -> OrderRows]
    /\ items \in [Items -> ItemRows]
    /\ \A i \in Items : items[i].batch \notin Orders => items[i].delivery = None
    /\ files = {}
    /\ fileSeq = [i \in Items |-> 0]
    /\ batchTasks = [o \in Orders |-> <<>>]
    /\ chords = [o \in Orders |-> <<>>]
    /\ updates = [o \in Orders |-> <<>>]
    /\ outbox = [o \in Orders |-> <<>>]

Next ==
    \/ Tick
    \/ \E o \in Orders : process_product_order(o)
    \/ \E o \in Orders : \E t \in DOMAIN batchTasks[o] :
        process_product_order_batch(o, t)
    \/ \E o \in Orders : \E k \in DOMAIN chords[o] : chord_unlock(o, k)
    \/ \E o \in Orders : \E k \in DOMAIN chords[o] : \E i \in Items :
        \/ process_online_data_access_item_start(o, k, i)
        \/ process_online_data_access_item_run(o, k, i)
        \/ process_online_data_delivery_item(o, k, i)
        \/ process_media_delivery_item(o, k, i)
    \/ \E o \in Orders : \E u \in DOMAIN updates[o] :
        \/ update_product_order_status_start(o, u)
        \/ package_batch_call(o, u)
        \/ package_batch_replace(o, u)
        \/ update_product_order_status_finish(o, u)
    \/ \E o \in Orders : Recompute(o)

Spec == Init /\ [][Next]_vars

(***************************************************************************)
(* The rollup on its own: any batch of up to MaxChildren items, in any     *)
(* statuses; Batch.status() is called on it, Python choosing the order of  *)
(* iteration of the set.                                                   *)
(***************************************************************************)
ChildrenChoices ==
    UNION {[1..n -> Statuses] : n \in 0..MaxChildren}

PipelineUnused ==
    /\ now = 0
    /\ item_availability_days = 1
    /\ orders = [o \in Orders |-> NoOrder]
    /\ items = [i \in Items |->
            [batch |-> 2, delivery |-> None, status |-> SUBMITTED,
             additional_status_info |-> "", completed_on |-> NoTime]]
    /\ files = {}
    /\ fileSeq = [i \in Items |-> 0]
    /\ batchTasks = [o \in Orders |-> <<>>]
    /\ chords = [o \in Orders |-> <<>>]
    /\ updates = [o \in Orders |-> <<>>]
    /\ outbox = [o \in Orders |-> <<>>]

InitRollup ==
    /\ children \in ChildrenChoices
    /\ iteration = <<>>
    /\ rollup = Unset
    /\ PipelineUnused
    /\ SideUnused

CallStatus ==
    /\ rollup = Unset
    /\ \E iter \in IterationOrders(Range(children)) :
        /\ iteration' = iter
        /\ rollup' = Status(Range(children), iter)
    /\ UNCHANGED <<children, pipelineVars, sideVars>>

NextRollup == CallStatus

SpecRollup == InitRollup /\ [][NextRollup]_vars

(***************************************************************************)
(* SubscriptionOrder.create_batch, and the processing of the new batch     *)
(***************************************************************************)
RepeatedMutantAdjacent(collection, previous_collections) ==
    /\ previous_collections # <<>>
    /\ previous_collections[Len(previous_collections)] = collection

\* collection in previous_collections
Repeated(collection, previous_collections) ==
    collection \in Range(previous_collections)

\* batch = Batch(); batch.save()
create_batch_begin ==
    /\ admission.pc = "idle"
    /\ admission' = [admission EXCEPT !.pc = "creating"]
    /\ UNCHANGED <<rollupVars, pipelineVars, order_item_spec, scheduled,
                   deliveryVars, deletionVars,
                   sweepVars, serviceVars>>

\* One turn of the loop over the item specs: the order item is created,
\* unless an order item of the batch has its collection already.
create_batch_order_item ==
    /\ admission.pc = "creating"
    /\ admission.next <= Len(order_item_spec)
    /\ LET collection == order_item_spec[admission.next]
           previous_collections == admission.order_items
       IN  IF ~Repeated(collection, previous_collections)
           THEN admission' = [admission EXCEPT
                    !.order_items = Append(@, collection),
                    !.next = @ + 1]
           ELSE admission' = [admission EXCEPT
                    !.pc = "raised",
                    !.error = <<"Repeated collection", collection>>]
    /\ UNCHANGED <<rollupVars, pipelineVars, order_item_spec, scheduled,
                   deliveryVars, deletionVars,
                   sweepVars, serviceVars>>

\* self.batches.add(batch); return batch
create_batch_return ==
    /\ admission.pc = "creating"
    /\ admission.next > Len(order_item_spec)
    /\ admission' = [admission EXCEPT !.pc = "returned", !.attached = TRUE]
    /\ UNCHANGED <<rollupVars, pipelineVars, order_item_spec, scheduled,
                   deliveryVars, deletionVars,
                   sweepVars, serviceVars>>

\* process_subscription_order_batch for the batch, once it is a batch of the
\* order: one job per order item of the batch, or none when _process_batch
\* raises for want of a delivery option.
process_subscription_order_batch ==
    /\ admission.attached
    /\ ~admission.dispatched
    /\ admission' = [admission EXCEPT !.dispatched = TRUE]
    /\ \E raises \in BOOLEAN :
        scheduled' =
            IF raises THEN scheduled
            ELSE [n \in DOMAIN admission.order_items |->
                    [order_item |-> n,
                     collection |-> admission.order_items[n]]]
    /\ UNCHANGED <<rollupVars, pipelineVars, order_item_spec,
                   deliveryVars, deletionVars,
                   sweepVars, serviceVars>>

InitAdmission ==
    /\ RollupUnused
    /\ SweepUnused
    /\ ServiceUnused
    /\ PipelineUnused
    /\ DeliveryUnused
    /\ DeletionUnused
    /\ order_item_spec \in ItemSpecs
    /\ admission = NoAdmission
    /\ scheduled = <<>>

NextAdmission ==
    \/ create_batch_begin
    \/ create_batch_order_item
    \/ create_batch_return
    \/ process_subscription_order_batch

SpecAdmission == InitAdmission /\ [][NextAdmission]_vars

(***************************************************************************)
(* OrderItem.export_delivery_options, and the dispatch of a batch, for     *)
(* any delivery options of the order and of its items.                     *)
(***************************************************************************)
\* The kind of the option of the SelectedDeliveryOption row of an owner,
\* None when the owner has no row.
OwnerDelivery(w) ==
    IF w[1] = "item" THEN items[w[2]].delivery ELSE orders[w[2]].delivery

ExportedOwnerMutantOrderFirst(i) ==
    IF orders[OrderOf(items[i].batch)].delivery # None
        THEN <<"order", OrderOf(items[i].batch)>>
        ELSE <<"item", i>>

\* Lines 584-586: the row of the item and, when it has none, of its order.
ExportedOwner(i) ==
    IF items[i].delivery # None
        THEN <<"item", i>>
        ELSE <<"order", OrderOf(items[i].batch)>>

\* Lines 587-602: the mapping made of a row.
DeliveryMapping(option, row) ==
    IF option = ONLINE_DATA_ACCESS
        THEN [copies |-> row.copies, annotation |-> row.annotation,
              special_instructions |-> row.special_instructions,
              delivery_fee |-> row.delivery_fee,
              delivery_type |-> "onlinedataaccess",
              protocol |-> row.protocol]
    ELSE IF option = ONLINE_DATA_DELIVERY
        THEN [copies |-> row.copies, annotation |-> row.annotation,
              special_instructions |-> row.special_instructions,
              delivery_fee |-> row.delivery_fee,
              delivery_type |-> "onlinedatadelivery",
              protocol |-> row.protocol]
    ELSE [copies |-> row.copies, annotation |-> row.annotation,
          special_instructions |-> row.special_instructions,
          delivery_fee |-> row.delivery_fee,
          delivery_type |-> "mediadelivery"]

\* The order has no row either: getattr raises DoesNotExist.
export_delivery_options(i) ==
    LET delivery == ExportedOwner(i)
    IN  IF OwnerDelivery(delivery) = None
            THEN [kind |-> "raised", value |-> [error |-> "DoesNotExist"]]
            ELSE [kind |-> "returned",
                  value |-> DeliveryMapping(OwnerDelivery(delivery),
                                            delivery_details[delivery])]

\* export_delivery_options() is called on an order item of a product order.
export_delivery_options_call(i) ==
    /\ items[i].batch \in {BatchOf(o) : o \in Orders}
    /\ Len(exported[i]) < MaxExports
    /\ exported' = [exported EXCEPT
            ![i] = Append(@, export_delivery_options(i))]
    /\ UNCHANGED <<rollupVars, pipelineVars, admissionVars, delivery_details,
                   deletionVars, sweepVars, serviceVars>>

InitDelivery ==
    /\ RollupUnused
    /\ SweepUnused
    /\ ServiceUnused
    /\ AdmissionUnused
    /\ DeletionUnused
    /\ now = 0
    /\ item_availability_days = 1
    /\ orders \in [Orders -> {r \in OrderRows : r.packaging = ""}]
    /\ items \in [Items -> ItemRows]
    /\ \A i \in Items : items[i].batch \notin Orders => items[i].delivery = None
    /\ delivery_details \in [Owners -> DeliveryDetails]
    /\ \A w \in Owners :
        OwnerDelivery(w) = None => delivery_details[w] = DefaultDetails
    /\ exported = [i \in Items |-> <<>>]
    /\ files = {}
    /\ fileSeq = [i \in Items |-> 0]
    /\ batchTasks = [o \in Orders |-> <<>>]
    /\ chords = [o \in Orders |-> <<>>]
    /\ updates = [o \in Orders |-> <<>>]
    /\ outbox = [o \in Orders |-> <<>>]

NextDelivery ==
    \/ \E o \in Orders : process_product_order(o)
    \/ \E o \in Orders : \E t \in DOMAIN batchTasks[o] :
        process_product_order_batch(o, t)
    \/ \E i \in Items : export_delivery_options_call(i)

SpecDelivery == InitDelivery /\ [][NextDelivery]_vars

(***************************************************************************)
(* OseoFile.can_be_deleted                                                 *)
(***************************************************************************)
can_be_deleted_mutant_not_after(self, t) ==
    IF self.expires_on <= t
        THEN TRUE
        ELSE self.downloads > 0 /\ self.delete_downloaded_files

\* Lines 650-659; t is datetime.now(pytz.utc).
can_be_deleted(self, t) ==
    IF self.expires_on < t
        THEN TRUE
        ELSE self.downloads > 0 /\ self.delete_downloaded_files

\* can_be_deleted() is called on the file.
can_be_deleted_call ==
    /\ Len(can_delete) < MaxCalls
    /\ can_delete' = Append(can_delete,
            [now |-> now, result |-> can_be_deleted(oseo_file, now)])
    /\ UNCHANGED <<rollupVars, pipelineVars, admissionVars, deliveryVars,
                   oseo_file, sweepVars, serviceVars>>

InitDeletable ==
    /\ RollupUnused
    /\ SweepUnused
    /\ ServiceUnused
    /\ PipelineUnused
    /\ AdmissionUnused
    /\ DeliveryUnused
    /\ oseo_file \in OseoFileRows
    /\ can_delete = <<>>

NextDeletable ==
    \/ Tick
    \/ can_be_deleted_call

SpecDeletable == InitDeletable /\ [][NextDeletable]_vars

(***************************************************************************)
(* The sweeps.  delete_expired_order_items applies one delete_batch per    *)
(* batch of an enabled order type that has an available file;              *)
(* delete_failed_orders applies one delete_batch, for all the files, per   *)
(* FAILED product order.  delete_batch calls the clean_files operation of  *)
(* the item processor and marks the files as not available.                *)
(***************************************************************************)
CleaningErrors == {"cleaning error"}

\* The row of a file as OseoFile.can_be_deleted reads it: the tasks create
\* the files with the default of downloads, 0.
DeletableRow(f) ==
    [expires_on |-> f.expires_on, downloads |-> 0,
     delete_downloaded_files |-> FALSE]

\* batch.expired_files(): the files of the batch that can be deleted.
expired_files(b, t) ==
    {f \in BatchFiles(b) : can_be_deleted(DeletableRow(f), t)}

\* filter(order_items__files__available=True).distinct()
HasAvailableFile(b) == \E f \in BatchFiles(b) : f.available

\* The batches delete_expired_order_items goes over: those of the enabled
\* order types.
SweptBatches ==
    IF order_type_enabled
        THEN {b \in Batches : HasAvailableFile(b)}
        ELSE {}

\* The batches delete_failed_orders goes over.
FailedOrderBatches ==
    {BatchOf(o) : o \in {p \in Orders : orders[p].status = FAILED}}

NewDeletion(b, expired_files_only) ==
    [batch |-> b, expired_files_only |-> expired_files_only,
     pc |-> "queued", to_delete |-> {}, unique_urls |-> <<>>]

\* group(g) for the batches: one delete_batch signature each.
DeletionGroup(batches, expired_files_only) ==
    LET g == SomeOrder(batches)
    IN  [n \in DOMAIN g |-> NewDeletion(g[n], expired_files_only)]

delete_expired_order_items ==
    /\ Len(sweeps) < MaxSweeps
    /\ deletions' = deletions \o DeletionGroup(SweptBatches, TRUE)
    /\ sweeps' = Append(sweeps,
            [task |-> "delete_expired_order_items",
             batches |-> SweptBatches])
    /\ UNCHANGED <<rollupVars, pipelineVars, admissionVars, deliveryVars,
                   deletionVars, serviceVars, order_type_enabled,
                   clean_calls, alerts>>

delete_failed_orders ==
    /\ Len(sweeps) < MaxSweeps
    /\ deletions' = deletions \o DeletionGroup(FailedOrderBatches, FALSE)
    /\ sweeps' = Append(sweeps,
            [task |-> "delete_failed_orders",
             batches |-> FailedOrderBatches])
    /\ UNCHANGED <<rollupVars, pipelineVars, admissionVars, deliveryVars,
                   deletionVars, serviceVars, order_type_enabled,
                   clean_calls, alerts>>

\* Lines 259-263.
ToDelete(b, expired_files_only, t) ==
    IF expired_files_only THEN expired_files(b, t) ELSE BatchFiles(b)

\* list(set([f.url for f in to_delete])): the distinct URLs, in any order.
UniqueUrlsMutantOnePerFile(to_delete) ==
    {seq \in [1..Cardinality(to_delete) -> {f.url : f \in to_delete}] :
        Range(seq) = {f.url : f \in to_delete}}

UniqueUrls(to_delete) == IterationOrders({f.url : f \in to_delete})

\* Lines 259-272: the files to delete are read, and their URLs; the call of
\* clean_files begins.
delete_batch_start(d) ==
    /\ d \in DOMAIN deletions
    /\ deletions[d].pc = "queued"
    /\ LET to_delete == ToDelete(deletions[d].batch,
                                 deletions[d].expired_files_only, now)
       IN  \E unique_urls \in UniqueUrls(to_delete) :
            deletions' = [deletions EXCEPT
                ![d].pc = "cleaning",
                ![d].to_delete = to_delete,
                ![d].unique_urls = unique_urls]
    /\ UNCHANGED <<rollupVars, pipelineVars, admissionVars, deliveryVars,
                   deletionVars, serviceVars, order_type_enabled,
                   sweeps, clean_calls, alerts>>

\* Lines 281-283: every file of to_delete is saved with available = False,
\* from the copy of its row the task holds (a row deleted in the meantime is
\* inserted again by the save).
MarkedUnavailableMutantToggle(to_delete) ==
    {f \in files : f.id \notin {g.id : g \in to_delete}}
    \cup {[g EXCEPT !.available = ~g.available] : g \in to_delete}

MarkedUnavailable(to_delete) ==
    {f \in files : f.id \notin {g.id : g \in to_delete}}
    \cup {[g EXCEPT !.available = FALSE] : g \in to_delete}

\* Lines 273-283: clean_files returns, or raises; when it raises the
\* cleaning error e-mail is sent; then, in both cases, the files are marked.
delete_batch_clean(d) ==
    /\ d \in DOMAIN deletions
    /\ deletions[d].pc = "cleaning"
    /\ \/ /\ clean_calls' = Append(clean_calls,
                [deletion |-> d, file_urls |-> deletions[d].unique_urls,
                 raised |-> FALSE])
          /\ UNCHANGED alerts
       \/ \E e \in CleaningErrors :
          /\ clean_calls' = Append(clean_calls,
                [deletion |-> d, file_urls |-> deletions[d].unique_urls,
                 raised |-> TRUE])
          /\ alerts' = Append(alerts,
                [deletion |-> d, urls |-> deletions[d].unique_urls,
                 text |-> e])
    /\ files' = MarkedUnavailable(deletions[d].to_delete)
    /\ deletions' = [deletions EXCEPT ![d].pc = "done"]
    /\ UNCHANGED <<rollupVars, admissionVars, deliveryVars, deletionVars,
                   serviceVars,
                   now, item_availability_days, orders, items, fileSeq,
                   batchTasks, chords, updates, outbox,
                   order_type_enabled, sweeps>>

\* The clock of the sweeps: the files expire.
TickSweep ==
    /\ now < MaxSweepTime
    /\ now' = now + 1
    /\ UNCHANGED <<rollupVars, sideVars,
                   item_availability_days, storeVars, taskVars,
                   outbox>>

(***************************************************************************)
(* The sweeps on their own: the store after some product orders were       *)
(* processed.  An order item has at most one file, at the URL the          *)
(* processor gave or at the URL of the package of its batch; an item       *)
(* without a file is FAILED.  The order is FAILED when its batch is, or    *)
(* when the packaging failed.                                              *)
(***************************************************************************)
SweepFileRows(i, url) ==
    {[id |-> <<i, 1>>, url |-> url, available |-> a, order_item |-> i,
      expires_on |-> e] : a \in BOOLEAN, e \in 1..2}

SweepItemRow(b, status) ==
    [batch |-> b, delivery |-> None, status |-> status,
     additional_status_info |-> "", completed_on |-> NoTime]

SweepOrderRows ==
    {[status |-> st, additional_status_info |-> EmptyInfo,
      completed_on |-> NoTime, packaging |-> p,
      delivery |-> ONLINE_DATA_ACCESS] :
        st \in {IN_PRODUCTION, COMPLETED, FAILED}, p \in Packagings}

\* The URL of the file of an order item: the one of the package when the
\* batch of the item was packaged.
SweepUrl(b) ==
    IF /\ b \in {BatchOf(o) : o \in Orders}
       /\ orders[OrderOf(b)].packaging # ""
       /\ orders[OrderOf(b)].status = COMPLETED
        THEN PackedUrl ELSE "a"

InitSweep ==
    /\ RollupUnused
    /\ AdmissionUnused
    /\ DeliveryUnused
    /\ DeletionUnused
    /\ ServiceUnused
    /\ now = 1
    /\ item_availability_days = 1
    /\ orders \in [Orders -> SweepOrderRows]
    /\ \E owners \in SUBSET Items, batch \in [Items -> Batches] :
        /\ items = [i \in Items |->
                SweepItemRow(batch[i],
                             IF i \in owners THEN COMPLETED ELSE FAILED)]
        /\ files \in SUBSET (UNION {SweepFileRows(i, SweepUrl(batch[i])) :
                                        i \in owners})
        /\ \A i \in owners : Cardinality(ItemFiles(i)) = 1
        /\ fileSeq = [i \in Items |-> IF i \in owners THEN 1 ELSE 0]
    /\ \A o \in Orders :
        /\ BatchStatus(BatchOf(o)) = FAILED => orders[o].status = FAILED
        /\ BatchStatus(BatchOf(o)) = None =>
            orders[o].status = IN_PRODUCTION
        /\ BatchStatus(BatchOf(o)) = COMPLETED =>
            /\ orders[o].status # IN_PRODUCTION
            /\ orders[o].status = FAILED => orders[o].packaging # ""
    /\ batchTasks = [o \in Orders |-> <<>>]
    /\ chords = [o \in Orders |-> <<>>]
    /\ updates = [o \in Orders |-> <<>>]
    /\ outbox = [o \in Orders |-> <<>>]
    /\ order_type_enabled \in BOOLEAN
    /\ sweeps = <<>>
    /\ deletions = <<>>
    /\ clean_calls = <<>>
    /\ alerts = <<>>

NextSweep ==
    \/ TickSweep
    \/ delete_expired_order_items
    \/ delete_failed_orders
    \/ \E d \in DOMAIN deletions :
        \/ delete_batch_start(d)
        \/ delete_batch_clean(d)

SpecSweep == InitSweep /\ [][NextSweep]_vars

(***************************************************************************)
(* The life cycle of the files: the processing of a product order (all its *)
(* items by online data access) together with the sweeps.                  *)
(***************************************************************************)
InitLifecycle ==
    /\ RollupUnused
    /\ AdmissionUnused
    /\ DeliveryUnused
    /\ DeletionUnused
    /\ ServiceUnused
    /\ now = 0
    /\ item_availability_days = 1
    /\ orders \in [Orders ->
            {r \in OrderRows : r.delivery = ONLINE_DATA_ACCESS}]
    /\ items \in [Items -> {r \in ItemRows : r.delivery = None}]
    /\ files = {}
    /\ fileSeq = [i \in Items |-> 0]
    /\ batchTasks = [o \in Orders |-> <<>>]
    /\ chords = [o \in Orders |-> <<>>]
    /\ updates = [o \in Orders |-> <<>>]
    /\ outbox = [o \in Orders |-> <<>>]
    /\ order_type_enabled = TRUE
    /\ sweeps = <<>>
    /\ deletions = <<>>
    /\ clean_calls = <<>>
    /\ alerts = <<>>

NextLifecycle ==
    \/ TickSweep
    \/ \E o \in Orders : process_product_order(o)
    \/ \E o \in Orders : \E t \in DOMAIN batchTasks[o] :
        process_product_order_batch(o, t)
    \/ \E o \in Orders : \E k \in DOMAIN chords[o] : chord_unlock(o, k)
    \/ \E o \in Orders : \E k \in DOMAIN chords[o] : \E i \in Items :
        \/ process_online_data_access_item_start(o, k, i)
        \/ process_online_data_access_item_run(o, k, i)
    \/ \E o \in Orders : \E u \in DOMAIN updates[o] :
        \/ update_product_order_status_start(o, u)
        \/ package_batch_call(o, u)
        \/ package_batch_replace(o, u)
        \/ update_product_order_status_finish(o, u)
    \/ /\ Len(sweeps) < MaxLifecycleSweeps
       /\ delete_expired_order_items
    \/ /\ Len(sweeps) < MaxLifecycleSweeps
       /\ delete_failed_orders
    \/ \E d \in DOMAIN deletions :
        \/ delete_batch_start(d)
        \/ delete_batch_clean(d)

SpecLifecycle == InitLifecycle /\ [][NextLifecycle]_vars

(***************************************************************************)
(* The same product order processed more than once: nothing in             *)
(* process_product_order tells whether the order was dispatched before, so *)
(* a second call applies a second chord on the same order items.           *)
(***************************************************************************)
process_product_order_again(o) ==
    /\ batchTasks[o] # <<>>
    /\ Len(batchTasks[o]) < MaxDispatches
    /\ orders' = [orders EXCEPT
            ![o].status = IN_PRODUCTION,
            ![o].additional_status_info =
                [text |-> "Order is being processed", report |-> <<>>]]
    /\ batchTasks' = [batchTasks EXCEPT ![o] = Append(@, "queued")]
    /\ UNCHANGED <<rollupVars, sideVars,
                   now, item_availability_days, items, files,
                   fileSeq, chords, updates, outbox>>

\* A product order whose order items are all delivered by online data access.
InitOnlineAccess ==
    /\ RollupUnused
    /\ SideUnused
    /\ now = 0
    /\ item_availability_days = 1
    /\ orders \in [Orders ->
            {r \in OrderRows : r.delivery = ONLINE_DATA_ACCESS}]
    /\ items \in [Items -> {r \in ItemRows : r.delivery = None}]
    /\ files = {}
    /\ fileSeq = [i \in Items |-> 0]
    /\ batchTasks = [o \in Orders |-> <<>>]
    /\ chords = [o \in Orders |-> <<>>]
    /\ updates = [o \in Orders |-> <<>>]
    /\ outbox = [o \in Orders |-> <<>>]

NextRedispatch ==
    \/ \E o \in Orders : process_product_order(o)
    \/ \E o \in Orders : process_product_order_again(o)
    \/ \E o \in Orders : \E t \in DOMAIN batchTasks[o] :
        process_product_order_batch(o, t)
    \/ \E o \in Orders : \E k \in DOMAIN chords[o] : chord_unlock(o, k)
    \/ \E o \in Orders : \E k \in DOMAIN chords[o] : \E i \in Items :
        \/ process_online_data_access_item_start(o, k, i)
        \/ process_online_data_access_item_run(o, k, i)
    \/ \E o \in Orders : \E u \in DOMAIN updates[o] :
        \/ update_product_order_status_start(o, u)
        \/ package_batch_call(o, u)
        \/ package_batch_replace(o, u)
        \/ update_product_order_status_finish(o, u)

SpecRedispatch == InitOnlineAccess /\ [][NextRedispatch]_vars

(***************************************************************************)
(* An item processor that does not answer.  process_item_online_access is  *)
(* called at lines 134-139 without a timeout and the task has no time      *)
(* limit: the job stays in the call.  The workers run every task that is   *)
(* queued and every call that is answered returns to its task.             *)
(***************************************************************************)
process_item_online_access_blocks(o, k, i) ==
    /\ k \in DOMAIN chords[o]
    /\ i \in DOMAIN chords[o][k].jobs
    /\ chords[o][k].jobs[i].task = "process_online_data_access_item"
    /\ chords[o][k].jobs[i].state = "running"
    /\ chords' = [chords EXCEPT ![o][k].jobs[i].state = "blocked"]
    /\ UNCHANGED <<rollupVars, sideVars,
                   now, item_availability_days, storeVars,
                   batchTasks, updates, outbox>>

NextTimeout ==
    \/ \E o \in Orders : process_product_order(o)
    \/ \E o \in Orders : \E t \in DOMAIN batchTasks[o] :
        process_product_order_batch(o, t)
    \/ \E o \in Orders : \E k \in DOMAIN chords[o] : chord_unlock(o, k)
    \/ \E o \in Orders : \E k \in DOMAIN chords[o] : \E i \in Items :
        \/ process_online_data_access_item_start(o, k, i)
        \/ process_online_data_access_item_run(o, k, i)
        \/ process_item_online_access_blocks(o, k, i)
    \/ \E o \in Orders : \E u \in DOMAIN updates[o] :
        \/ update_product_order_status_start(o, u)
        \/ package_batch_call(o, u)
        \/ package_batch_replace(o, u)
        \/ update_product_order_status_finish(o, u)

SpecTimeout ==
    InitOnlineAccess /\ [][NextTimeout]_vars /\ WF_vars(NextTimeout)

(***************************************************************************)
(* The batch available notifications.  process_subscription_order_batch    *)
(* applies chain(group, notify_user_subscription_batch_available): a chord *)
(* whose body is the notification.  process_product_order_batch with       *)
(* notify_user applies chain(group, update_product_order_status,           *)
(* notify_user_product_batch_available); the signature of the last task is *)
(* not immutable, so the task is applied with the result of                *)
(* update_product_order_status before batch_id.                            *)
(***************************************************************************)
NewNotification(task, chord, pc) ==
    [task |-> task, chord |-> chord, pc |-> pc]

\* Lines 69-82; the order of the batch is a subscription order.
process_subscription_order_batch_apply(o, notify_user) ==
    /\ batchTasks[o] = <<>>
    /\ \/ /\ process_batch_raises(BatchOf(o))
          /\ batchTasks' = [batchTasks EXCEPT ![o] = <<"raised">>]
          /\ UNCHANGED <<chords, notifications>>
       \/ /\ ~process_batch_raises(BatchOf(o))
          /\ LET celery_group == process_batch(BatchOf(o))
                 k == Len(chords[o]) + 1
             IN  /\ chords' = [chords EXCEPT
                        ![o] = Append(@, [jobs |-> celery_group])]
                 /\ IF notify_user
                    THEN \E pc \in ChordBody(celery_group) :
                        notifications' = [notifications EXCEPT
                            ![o] = Append(@, NewNotification(
                                "notify_user_subscription_batch_available",
                                k, pc))]
                    ELSE UNCHANGED notifications
          /\ batchTasks' = [batchTasks EXCEPT ![o] = <<"done">>]
    /\ UNCHANGED <<rollupVars, admissionVars, deliveryVars, deletionVars,
                   sweepVars, completed_files,
                   now, item_availability_days, storeVars, updates, outbox>>

\* Lines 85-98, with notify_user = True.
process_product_order_batch_notify_user(o) ==
    /\ batchTasks[o] = <<>>
    /\ \/ /\ process_batch_raises(BatchOf(o))
          /\ batchTasks' = [batchTasks EXCEPT ![o] = <<"raised">>]
          /\ UNCHANGED <<chords, updates, notifications>>
       \/ /\ ~process_batch_raises(BatchOf(o))
          /\ LET celery_group == process_batch(BatchOf(o))
                 k == Len(chords[o]) + 1
             IN  /\ chords' = [chords EXCEPT
                        ![o] = Append(@, [jobs |-> celery_group])]
                 /\ \E pc \in ChordBody(celery_group) :
                        updates' = [updates EXCEPT
                            ![o] = Append(@, NewUpdate(k, pc))]
                 /\ notifications' = [notifications EXCEPT
                        ![o] = Append(@, NewNotification(
                            "notify_user_product_batch_available",
                            k, "waiting"))]
          /\ batchTasks' = [batchTasks EXCEPT ![o] = <<"done">>]
    /\ UNCHANGED <<rollupVars, admissionVars, deliveryVars, deletionVars,
                   sweepVars, completed_files,
                   now, item_availability_days, storeVars, outbox>>

\* The chords whose body is an update_product_order_status.
UpdateChords(o) == {updates[o][u].chord : u \in DOMAIN updates[o]}

\* The tasks before the notification in its chain have returned.
NotificationApplied(o, n) ==
    LET task == notifications[o][n]
    IN  /\ task.pc \in {"waiting", "queued"}
        /\ HeaderDone(chords[o][task.chord].jobs)
        /\ HeaderSucceeded(chords[o][task.chord].jobs)
        /\ task.chord \in UpdateChords(o) =>
            updates[o][BodyOf(o, task.chord)].pc = "done"

\* Lines 103-106.
notify_user_subscription_batch_available(o, n) ==
    /\ n \in DOMAIN notifications[o]
    /\ notifications[o][n].task = "notify_user_subscription_batch_available"
    /\ NotificationApplied(o, n)
    /\ outbox' = [outbox EXCEPT ![o] =
            Append(@, [kind |-> "subscription_batch_available",
                       text |-> "", report |-> <<>>])]
    /\ notifications' = [notifications EXCEPT ![o][n].pc = "done"]
    /\ UNCHANGED <<rollupVars, admissionVars, deliveryVars, deletionVars,
                   sweepVars, completed_files,
                   now, item_availability_days, storeVars, taskVars>>

\* Lines 109-112: the task is called with two arguments, None and batch_id,
\* where it takes one: a TypeError, before the e-mail.
notify_user_product_batch_available(o, n) ==
    /\ n \in DOMAIN notifications[o]
    /\ notifications[o][n].task = "notify_user_product_batch_available"
    /\ NotificationApplied(o, n)
    /\ notifications' = [notifications EXCEPT ![o][n].pc = "failed"]
    /\ UNCHANGED <<rollupVars, admissionVars, deliveryVars, deletionVars,
                   sweepVars, completed_files,
                   now, item_availability_days, storeVars, taskVars,
                   outbox>>

NextNotify ==
    \/ \E o \in Orders : \E notify_user \in BOOLEAN :
        process_subscription_order_batch_apply(o, notify_user)
    \/ \E o \in Orders : process_product_order_batch_notify_user(o)
    \/ \E o \in Orders : \E k \in UpdateChords(o) : chord_unlock(o, k)
    \/ \E o \in Orders : \E k \in DOMAIN chords[o] : \E i \in Items :
        \/ process_online_data_access_item_start(o, k, i)
        \/ process_online_data_access_item_run(o, k, i)
        \/ process_online_data_delivery_item(o, k, i)
        \/ process_media_delivery_item(o, k, i)
    \/ \E o \in Orders : \E u \in DOMAIN updates[o] :
        \/ update_product_order_status_start(o, u)
        \/ package_batch_call(o, u)
        \/ package_batch_replace(o, u)
        \/ update_product_order_status_finish(o, u)
    \/ \E o \in Orders : \E n \in DOMAIN notifications[o] :
        \/ notify_user_subscription_batch_available(o, n)
        \/ notify_user_product_batch_available(o, n)

SpecNotify == Init /\ [][NextNotify]_vars

(***************************************************************************)
(* Batch.get_completed_files: the files of a batch that a client is given  *)
(* when it asks for the results of its order.  It is called by the server, *)
(* at any time, while the tasks process the order.                         *)
(***************************************************************************)
ALL_READY == "allReady"
NEXT_READY == "nextReady"

\* order.last_describe_result_access_request: None, or a time.
LastTimes == {NoTime} \cup (0..MaxTime)

\* Lines 176-191: the available files of the COMPLETED order items of the
\* batch that are delivered by online data access, each with the delivery
\* option of its item.
BatchCompleteItems(b, behaviour, last_time) ==
    {[file |-> f, delivery |-> SelectedDeliveryOption(f.order_item)] :
        f \in {g \in BatchFiles(b) :
            /\ SelectedDeliveryOption(g.order_item) = ONLINE_DATA_ACCESS
            /\ items[g.order_item].status = COMPLETED
            /\ \/ last_time = NoTime
               \/ behaviour = ALL_READY
               \/ /\ behaviour = NEXT_READY
                  /\ items[g.order_item].completed_on >= last_time
            /\ g.available}}

\* Lines 167-201: what the call can return, the rows being read in any
\* order.  Line 169 raises DoesNotExist when the order has no delivery
\* option.
get_completed_files(b, behaviour, last_time) ==
    IF orders[OrderOf(b)].delivery = None
        THEN {[kind |-> "raised", completed |-> <<>>]}
    ELSE IF BatchStatus(b) # COMPLETED
        THEN {[kind |-> "returned", completed |-> <<>>]}
    ELSE LET batch_complete_items ==
                BatchCompleteItems(b, behaviour, last_time)
         IN  IF orders[OrderOf(b)].packaging = "zip"
             THEN IF Cardinality(batch_complete_items)
                        = Cardinality(OrderItems(b))
                  THEN {[kind |-> "returned", completed |-> <<seq[1]>>] :
                            seq \in IterationOrders(batch_complete_items)}
                  ELSE {[kind |-> "returned", completed |-> <<>>]}
             ELSE {[kind |-> "returned", completed |-> seq] :
                        seq \in IterationOrders(batch_complete_items)}

\* The server calls get_completed_files on the batch of an order.
get_completed_files_call(o) ==
    /\ Len(completed_files) < MaxResultCalls
    /\ \E behaviour \in {ALL_READY, NEXT_READY}, last_time \in LastTimes :
        \E result \in get_completed_files(BatchOf(o), behaviour, last_time) :
            completed_files' = Append(completed_files,
                [batch |-> BatchOf(o), behaviour |-> behaviour,
                 last_time |-> last_time,
                 status |-> BatchStatus(BatchOf(o)),
                 kind |-> result.kind, completed |-> result.completed])
    /\ UNCHANGED <<rollupVars, pipelineVars, admissionVars, deliveryVars,
                   deletionVars, sweepVars, notifications>>

InitResultAccess ==
    /\ Init
    /\ item_availability_days = 1

NextResultAccess ==
    \/ Tick
    \/ \E o \in Orders : process_product_order(o)
    \/ \E o \in Orders : \E t \in DOMAIN batchTasks[o] :
        process_product_order_batch(o, t)
    \/ \E o \in Orders : \E k \in DOMAIN chords[o] : chord_unlock(o, k)
    \/ \E o \in Orders : \E k \in DOMAIN chords[o] : \E i \in Items :
        \/ process_online_data_access_item_start(o, k, i)
        \/ process_online_data_access_item_run(o, k, i)
        \/ process_online_data_delivery_item(o, k, i)
        \/ process_media_delivery_item(o, k, i)
    \/ \E o \in Orders : \E u \in DOMAIN updates[o] :
        \/ update_product_order_status_start(o, u)
        \/ package_batch_call(o, u)
        \/ package_batch_replace(o, u)
        \/ update_product_order_status_finish(o, u)
    \/ \E o \in Orders : get_completed_files_call(o)

SpecResultAccess == InitResultAccess /\ [][NextResultAccess]_vars

(***************************************************************************)
(* The processing of a product order when the workers run every task that  *)
(* is queued and every call of the item processor returns or raises.       *)
(***************************************************************************)
NextProgress ==
    \/ \E o \in Orders : process_product_order(o)
    \/ \E o \in Orders : \E t \in DOMAIN batchTasks[o] :
        process_product_order_batch(o, t)
    \/ \E o \in Orders : \E k \in DOMAIN chords[o] : chord_unlock(o, k)
    \/ \E o \in Orders : \E k \in DOMAIN chords[o] : \E i \in Items :
        \/ process_online_data_access_item_start(o, k, i)
        \/ process_online_data_access_item_run(o, k, i)
        \/ process_online_data_delivery_item(o, k, i)
        \/ process_media_delivery_item(o, k, i)
    \/ \E o \in Orders : \E u \in DOMAIN updates[o] :
        \/ update_product_order_status_start(o, u)
        \/ package_batch_call(o, u)
        \/ package_batch_replace(o, u)
        \/ update_product_order_status_finish(o, u)

SpecProgress == Init /\ [][NextProgress]_vars /\ WF_vars(NextProgress)

(***************************************************************************)
(* The rollup rules of Batch.status(), checked under SpecRollup.           *)
(***************************************************************************)
Called == rollup # Unset

\* The ordinals as the rules state them, SUBMITTED(0) < ... < DOWNLOADED(8).
StatedOrder ==
    <<SUBMITTED, ACCEPTED, IN_PRODUCTION, SUSPENDED, CANCELLED, COMPLETED,
      FAILED, TERMINATED, DOWNLOADED>>

Ordinal(st) == (CHOOSE n \in DOMAIN StatedOrder : StatedOrder[n] = st) - 1

\* C1: whenever the statuses of the order items of a batch contain FAILED,
\* Batch.status() returns FAILED, whatever the other statuses are and
\* whatever the order of iteration.
C1_FailedDominates ==
    (Called /\ FAILED \in Range(children)) => rollup = FAILED

C1_Witness ==
    /\ Called
    /\ Len(children) >= 2
    /\ {FAILED, SUBMITTED} \subseteq Range(children)
    /\ iteration[1] = SUBMITTED
    /\ rollup = FAILED

\* C2: when the statuses hold at least two distinct values and no FAILED,
\* Batch.status() returns the status present with the lowest ordinal, in
\* every order of iteration; {SUBMITTED, COMPLETED} gives SUBMITTED and
\* {ACCEPTED, COMPLETED, DOWNLOADED} gives ACCEPTED.
C2_LowestOrdinalWins ==
    /\ (Called /\ Cardinality(Range(children)) >= 2
            /\ FAILED \notin Range(children))
        => /\ rollup \in Range(children)
           /\ \A st \in Range(children) : Ordinal(rollup) <= Ordinal(st)
    /\ (Called /\ Range(children) = {SUBMITTED, COMPLETED})
        => rollup = SUBMITTED
    /\ (Called /\ Range(children) = {ACCEPTED, COMPLETED, DOWNLOADED})
        => rollup = ACCEPTED

C2_Witness ==
    /\ Called
    /\ children = <<COMPLETED, DOWNLOADED, ACCEPTED>>
    /\ iteration = <<DOWNLOADED, COMPLETED, ACCEPTED>>
    /\ rollup = ACCEPTED

\* C3: when all the order items of a non-empty batch have the same status S,
\* in any number, Batch.status() returns S.
C3_UniformStatus ==
    (Called /\ children # <<>> /\ Cardinality(Range(children)) = 1)
        => rollup = children[1]

C3_Witness ==
    /\ Called
    /\ Len(children) >= 2
    /\ Range(children) = {SUSPENDED}
    /\ rollup = SUSPENDED

(***************************************************************************)
(* The processing of a product order, checked under Spec.                  *)
(***************************************************************************)
\* The update_product_order_status tasks that are the body of chord k.
Bodies(o, k) == {u \in DOMAIN updates[o] : updates[o][u].chord = k}

\* The task has begun to run.
Begun(upd) ==
    upd.pc \in {"packaging", "replacing", "finishing", "done", "failed"}

OnlineAccessOnly(jobs) ==
    \A i \in DOMAIN jobs : jobs[i].task = "process_online_data_access_item"

\* C4: once a batch is dispatched, the update_product_order_status of the
\* dispatch is not applied, and so does not start, while an item job of the
\* dispatch is queued or running: it runs only when every item job has
\* succeeded or failed.
C4_JoinBarrier ==
    \A o \in Orders : \A k \in DOMAIN chords[o] : \A u \in Bodies(o, k) :
        updates[o][u].pc \notin {"waiting", "error", "lost"}
            => \A i \in DOMAIN chords[o][k].jobs :
                    chords[o][k].jobs[i].state \in {"succeeded", "failed"}

C4_Witness ==
    \E o \in Orders : \E k \in DOMAIN chords[o] : \E u \in Bodies(o, k) :
        /\ Cardinality(DOMAIN chords[o][k].jobs) >= 2
        /\ updates[o][u].pc = "done"

\* C5: for the dispatch of a batch of two (or more) online data access items,
\* whatever the interleaving of the item jobs: there is exactly one
\* update_product_order_status for the dispatch; it is never dropped once
\* the jobs have returned; while and after it runs every item of the batch is
\* COMPLETED or FAILED, never IN_PRODUCTION again; and once it is done the
\* order is COMPLETED or FAILED, not IN_PRODUCTION.
C5_ConcurrentCompletion ==
    \A o \in Orders : \A k \in DOMAIN chords[o] :
        LET jobs == chords[o][k].jobs
        IN  (Cardinality(DOMAIN jobs) >= 2 /\ OnlineAccessOnly(jobs))
            => /\ Cardinality(Bodies(o, k)) = 1
               /\ \A u \in Bodies(o, k) :
                    /\ updates[o][u].pc \notin {"error", "lost"}
                    /\ Begun(updates[o][u])
                        => \A i \in DOMAIN jobs :
                            /\ jobs[i].state = "succeeded"
                            /\ items[i].status \in {COMPLETED, FAILED}
                    /\ updates[o][u].pc = "done"
                        => orders[o].status \in {COMPLETED, FAILED}

C5_Witness ==
    \E o \in Orders : \E k \in DOMAIN chords[o] : \E u \in Bodies(o, k) :
        /\ DOMAIN chords[o][k].jobs = {1, 2}
        /\ OnlineAccessOnly(chords[o][k].jobs)
        /\ updates[o][u].pc = "done"
        /\ items[1].status = COMPLETED
        /\ items[2].status = COMPLETED
        /\ items[1].completed_on > items[2].completed_on
        /\ orders[o].status = COMPLETED

\* C6: when the processor raises in an item job, the job returns normally,
\* the item is FAILED with the text of the error as additional status info,
\* and the update_product_order_status of the dispatch finds the batch
\* FAILED: while it runs the batch status is FAILED and, once it is done,
\* the order is FAILED.
C6_ItemJobFailure ==
    \A o \in Orders : \A k \in DOMAIN chords[o] :
        \A i \in DOMAIN chords[o][k].jobs :
            chords[o][k].jobs[i].outcome.kind = "raised"
            => /\ chords[o][k].jobs[i].state = "succeeded"
               /\ items[i].status = FAILED
               /\ items[i].additional_status_info
                    = chords[o][k].jobs[i].outcome.text
               /\ \A u \in Bodies(o, k) :
                    /\ Begun(updates[o][u])
                        => BatchStatus(BatchOf(o)) = FAILED
                    /\ updates[o][u].pc = "done"
                        => orders[o].status = FAILED

C6_Witness ==
    \E o \in Orders : \E k \in DOMAIN chords[o] : \E u \in Bodies(o, k) :
        \E i, j \in DOMAIN chords[o][k].jobs :
            /\ chords[o][k].jobs[i].outcome.kind = "raised"
            /\ items[i].additional_status_info \in ProcessorErrors
            /\ items[j].status = COMPLETED
            /\ updates[o][u].pc = "done"
            /\ orders[o].status = FAILED

\* The step of an item job from the call of the processor to the final save.
JobRan(o, k, i) ==
    /\ chords[o][k].jobs[i].state = "running"
    /\ chords'[o][k].jobs[i].state = "succeeded"

\* The item is COMPLETED at the current time and one file is created for
\* each URL of the outcome, owned by the item, available, expiring after the
\* availability window; no other file is touched.
CompletedWithFiles(o, k, i) ==
    LET urls == chords'[o][k].jobs[i].outcome.urls
        created == files' \ files
    IN  /\ items'[i].status = COMPLETED
        /\ items'[i].completed_on = now
        /\ files \subseteq files'
        /\ Cardinality(created) = Len(urls)
        /\ \A v \in Range(urls) :
                Cardinality({f \in created : f.url = v})
                    = Cardinality({n \in DOMAIN urls : urls[n] = v})
        /\ \A f \in created :
                /\ f.order_item = i
                /\ f.available
                /\ f.expires_on = now + item_availability_days

JobStep(o, k, i) == chords'[o][k].jobs[i] # chords[o][k].jobs[i]

FilesOf(fs, i) == {f \in fs : f.order_item = i}

\* The queued or running job can take its next step.
CanProceed(o, k, i) ==
    LET job == chords[o][k].jobs[i]
    IN  /\ (job.state = "queued"
                /\ job.task = "process_online_data_access_item")
            => ENABLED process_online_data_access_item_start(o, k, i)
        /\ job.state = "running"
            => ENABLED process_online_data_access_item_run(o, k, i)
        /\ (job.state = "queued"
                /\ job.task = "process_online_data_delivery_item")
            => ENABLED process_online_data_delivery_item(o, k, i)
        /\ (job.state = "queued"
                /\ job.task = "process_media_delivery_item")
            => ENABLED process_media_delivery_item(o, k, i)

\* The step of the job of item i writes the row and the files of item i only,
\* leaves the sibling jobs as they are, and what it writes is decided by the
\* outcome of its own call of the processor.
OwnWritesOnly(o, k, i) ==
    LET outcome == chords'[o][k].jobs[i].outcome
        success ==
            /\ outcome.kind = "returned"
            /\ \E n \in DOMAIN outcome.urls : outcome.urls[n] # ""
    IN  /\ \A j \in Items \ {i} :
            /\ items'[j] = items[j]
            /\ FilesOf(files', j) = FilesOf(files, j)
        /\ \A j \in DOMAIN chords[o][k].jobs \ {i} :
            chords'[o][k].jobs[j] = chords[o][k].jobs[j]
        /\ orders' = orders
        /\ JobRan(o, k, i)
            => /\ items'[i].status = IF success THEN COMPLETED ELSE FAILED
               /\ FilesOf(files, i) \subseteq FilesOf(files', i)
               /\ Cardinality(FilesOf(files', i) \ FilesOf(files, i))
                    = IF success THEN Len(outcome.urls) ELSE 0

\* C8: whatever happened to the other jobs of the dispatch (failed or not),
\* a job that is queued or running can take its next step, and a step of the
\* job of an item changes the status and the files of that item only,
\* leaves the sibling jobs untouched, and sets the status and the files of
\* its item from the outcome of its own processor call alone.
C8_FailureIsolation ==
    /\ [](\A o \in Orders : \A k \in DOMAIN chords[o] :
            \A i \in DOMAIN chords[o][k].jobs : CanProceed(o, k, i))
    /\ [][\A o \in Orders : \A k \in DOMAIN chords[o] :
            \A i \in DOMAIN chords[o][k].jobs :
                JobStep(o, k, i) => OwnWritesOnly(o, k, i)]_vars

C8_Witness ==
    \E o \in Orders : \E k \in DOMAIN chords[o] :
        \E i, j \in DOMAIN chords[o][k].jobs :
            /\ i # j
            /\ chords[o][k].jobs[i].state = "failed"
            /\ chords[o][k].jobs[j].state = "succeeded"
            /\ items[j].status = COMPLETED
            /\ items[i].status = SUBMITTED
            /\ FilesOf(files, j) # {}
            /\ FilesOf(files, i) = {}

\* C9: a dispatch of a batch holds exactly one item job for each order item
\* of the batch, none for an order item of another batch, and the task of
\* each job is the one of the delivery option of the item or, when the item
\* has none, of the order.
C9_OneJobPerItem ==
    \A o \in Orders : \A k \in DOMAIN chords[o] :
        LET jobs == chords[o][k].jobs
        IN  /\ DOMAIN jobs = {i \in Items : items[i].batch = BatchOf(o)}
            /\ \A i \in DOMAIN jobs :
                LET selected == IF items[i].delivery # None
                                    THEN items[i].delivery
                                    ELSE orders[o].delivery
                IN  /\ selected = ONLINE_DATA_ACCESS
                        => jobs[i].task = "process_online_data_access_item"
                    /\ selected = ONLINE_DATA_DELIVERY
                        => jobs[i].task = "process_online_data_delivery_item"
                    /\ selected = MEDIA_DELIVERY
                        => jobs[i].task = "process_media_delivery_item"
                    /\ selected \in DeliveryOptions

C9_Witness ==
    \E o \in Orders : \E k \in DOMAIN chords[o] :
        LET jobs == chords[o][k].jobs
        IN  /\ DOMAIN jobs # {}
            /\ Items \ DOMAIN jobs # {}
            /\ \E i \in DOMAIN jobs :
                /\ items[i].delivery = None
                /\ jobs[i].task = "process_media_delivery_item"

\* The update_product_order_status of a dispatch is done, the order asks for
\* a packaging and every item of its batch (there is one at least) is
\* COMPLETED.
PackagedBatch(o) ==
    /\ \E k \in DOMAIN chords[o] : \E u \in Bodies(o, k) :
            updates[o][u].pc = "done"
    /\ orders[o].packaging # ""
    /\ OrderItems(BatchOf(o)) # {}
    /\ \A i \in OrderItems(BatchOf(o)) : items[i].status = COMPLETED

\* None of the files the item jobs created is left.
PriorFilesGone(o) ==
    \A k \in DOMAIN chords[o] : \A i \in DOMAIN chords[o][k].jobs :
        \A f \in FilesOf(files, i) :
            f.id[2] > Len(chords[o][k].jobs[i].outcome.urls)

\* C10 (amended): after the fan-in of a batch of N >= 1 items, all COMPLETED,
\* with a packaging, exactly N files exist for the batch, one owned by each
\* item, all available and all with the one URL of the package, and none of
\* the files the item jobs created is left; this still holds after a
\* further recomputation.
C10_PackagingResult ==
    \A o \in Orders :
        PackagedBatch(o)
        => LET packaged == BatchFiles(BatchOf(o))
           IN  /\ Cardinality(packaged) = Cardinality(OrderItems(BatchOf(o)))
               /\ \A i \in OrderItems(BatchOf(o)) :
                    Cardinality(FilesOf(packaged, i)) = 1
               /\ Cardinality({f.url : f \in packaged}) = 1
               /\ \A f \in packaged : f.available /\ f.url = PackedUrl
               /\ PriorFilesGone(o)

C10_Witness ==
    \E o \in Orders : \E u \in Standalone(o) :
        /\ PackagedBatch(o)
        /\ Cardinality(OrderItems(BatchOf(o))) >= 2
        /\ updates[o][u].pc = "done"
        /\ updates[o][u].packed # ""
        /\ orders[o].status = COMPLETED

\* C10 as stated: exactly one file exists for the batch afterwards.
C10_Original ==
    \A o \in Orders :
        PackagedBatch(o)
        => /\ Cardinality(BatchFiles(BatchOf(o))) = 1
           /\ PriorFilesGone(o)

(***************************************************************************)
(* The recomputation of the order status: packaging failure, repeated      *)
(* recomputation, the report of the failed items, notifications.           *)
(***************************************************************************)
\* Update u of order o leaves the step it is at.
Leaves(o, u, pc) ==
    /\ updates[o][u].pc = pc
    /\ updates'[o][u].pc # pc

\* C11: when the packaging operation fails during the recomputation, the
\* order becomes FAILED with the packaging error as its additional status
\* info, the task ends with the error, and the task never packages again.
C11_PackagingFailure ==
    [][\A o \in Orders : \A u \in DOMAIN updates[o] :
        /\ (Leaves(o, u, "packaging") /\ updates'[o][u].pc # "replacing")
            => /\ updates'[o][u].pc = "failed"
               /\ orders'[o].status = FAILED
               /\ orders'[o].additional_status_info.text \in PackagingErrors
        /\ updates[o][u].pc = "failed" => updates'[o][u].pc = "failed"]_vars

\* Update u of order o is run right after the recomputation that ended the
\* dispatch of the batch has completed: every item job had returned before
\* that recomputation began, so that no item changes between the two runs.
SecondRun(o, u) ==
    /\ u > 1
    /\ updates[o][u - 1].chord # 0
    /\ updates[o][u - 1].pc = "done"
    /\ updates[o][u].chord = 0

\* C12: a recomputation that follows a completed recomputation of the same
\* order, no item having changed in between, leaves the status of the order
\* as it was and sends no notification.
C12_RecomputationIdempotent ==
    [][\A o \in Orders : \A u \in DOMAIN updates[o] :
        (SecondRun(o, u) /\ Leaves(o, u, "finishing"))
        => /\ orders'[o].status = orders[o].status
           /\ outbox'[o] = outbox[o]]_vars

\* The recomputation u sets the order to FAILED from the status of its batch.
SetsFailed(o, u) ==
    /\ updates[o][u].pc = "finishing"
    /\ updates'[o][u].pc = "done"
    /\ updates'[o][u].order.status = FAILED
    /\ orders'[o].status = FAILED

\* The entries of a report name exactly the FAILED order items of the batch,
\* each once, with its additional status info.
ReportsFailedItems(report, b) ==
    /\ \A i \in OrderItems(b) :
        items[i].status = FAILED =>
            Cardinality({n \in DOMAIN report :
                report[n] = <<i, items[i].additional_status_info>>}) = 1
    /\ \A n \in DOMAIN report :
        /\ report[n][1] \in OrderItems(b)
        /\ items[report[n][1]].status = FAILED
    /\ Len(report) =
        Cardinality({i \in OrderItems(b) : items[i].status = FAILED})

\* C13: when the recomputation sets the order to FAILED, the additional
\* status info of the order has one entry (item id, message) for every FAILED
\* order item of the batch and none for another item, and a failure e-mail
\* with that report is sent.
C13_FailureReport ==
    [][\A o \in Orders : \A u \in DOMAIN updates[o] :
        SetsFailed(o, u) =>
            LET report == orders'[o].additional_status_info.report
            IN  /\ ReportsFailedItems(report, BatchOf(o))
                /\ outbox'[o] = Append(outbox[o],
                        [kind |-> "order_failed", text |-> "",
                         report |-> report])]_vars

\* A FAILED order whose batch has a FAILED and a COMPLETED item: the report
\* has the one entry and the e-mail is in the outbox.
C13_Witness ==
    \E o \in Orders :
        /\ orders[o].status = FAILED
        /\ Len(orders[o].additional_status_info.report) = 1
        /\ \E i, j \in OrderItems(BatchOf(o)) :
            /\ items[i].status = FAILED
            /\ items[j].status = COMPLETED
        /\ \E n \in DOMAIN outbox[o] :
            /\ outbox[o][n].kind = "order_failed"
            /\ outbox[o][n].report = orders[o].additional_status_info.report

\* C14: an order that the recomputation has set to COMPLETED has had a
\* success notification sent.
C14_SuccessNotification ==
    \A o \in Orders :
        orders[o].status = COMPLETED =>
            \E n \in DOMAIN outbox[o] :
                outbox[o][n].kind = "product_batch_available"

\* C15: a recomputation that finds the batch FAILED persists the FAILED
\* status of the order and ends normally, whether or not the failure e-mail
\* could be sent.
C15_NotificationFireAndForget ==
    [][\A o \in Orders : \A u \in DOMAIN updates[o] :
        (/\ Leaves(o, u, "finishing")
         /\ BatchStatus(BatchOf(o)) = FAILED)
        => /\ updates'[o][u].pc = "done"
           /\ orders'[o].status = FAILED]_vars

(***************************************************************************)
(* The admission of the items of a subscription batch, under               *)
(* SpecAdmission.                                                         *)
(***************************************************************************)
\* The item specs at which a collection comes a second time.
Repeats(specs) ==
    {n \in DOMAIN specs : \E m \in 1..(n - 1) : specs[m] = specs[n]}

FirstRepeat(specs) ==
    CHOOSE n \in Repeats(specs) : \A m \in Repeats(specs) : n <= m

\* C16: when two of the item specs given to create_batch have the same
\* collection, create_batch raises an error at the first spec that repeats
\* a collection, the batch never becomes a batch of the order, and no item
\* job is ever scheduled for it.
C16_DuplicateCollectionRejected ==
    Repeats(order_item_spec) # {} =>
        /\ admission.pc \in {"idle", "creating", "raised"}
        /\ admission.next <= FirstRepeat(order_item_spec)
        /\ admission.pc = "raised" =>
            /\ admission.next = FirstRepeat(order_item_spec)
            /\ admission.error =
                <<"Repeated collection",
                  order_item_spec[FirstRepeat(order_item_spec)]>>
        /\ ~admission.attached
        /\ ~admission.dispatched
        /\ scheduled = <<>>

\* create_batch has raised at the third item spec, which repeats the
\* collection of the first and not that of the second.
C16_Witness ==
    /\ Len(order_item_spec) >= 3
    /\ order_item_spec[3] = order_item_spec[1]
    /\ order_item_spec[2] # order_item_spec[1]
    /\ admission.pc = "raised"
    /\ Len(admission.order_items) = 2
    /\ scheduled = <<>>

(***************************************************************************)
(* The resolution of the delivery option of an order item, under           *)
(* SpecDelivery.                                                           *)
(***************************************************************************)
\* The delivery option the item is to be processed with: its own when it
\* has one, that of its order otherwise.
OwnOrParent(i) ==
    IF items[i].delivery # None
        THEN [option |-> items[i].delivery,
              row |-> delivery_details[<<"item", i>>]]
        ELSE [option |-> orders[OrderOf(items[i].batch)].delivery,
              row |-> delivery_details[<<"order", OrderOf(items[i].batch)>>]]

JobKind(option) ==
    CASE option = ONLINE_DATA_ACCESS -> "process_online_data_access_item"
      [] option = ONLINE_DATA_DELIVERY -> "process_online_data_delivery_item"
      [] option = MEDIA_DELIVERY -> "process_media_delivery_item"
      [] OTHER -> "none"

\* C17: the job dispatched for an order item is of the kind of the item's
\* own delivery option when it has one and of its order's otherwise, and
\* the delivery parameters exported for the item are those of that same
\* option, field by field.
C17_DeliveryResolution ==
    \A o \in Orders : \A i \in OrderItems(BatchOf(o)) :
        /\ \A k \in DOMAIN chords[o] :
            /\ i \in DOMAIN chords[o][k].jobs
            /\ chords[o][k].jobs[i].task = JobKind(OwnOrParent(i).option)
        /\ \A n \in DOMAIN exported[i] :
            exported[i][n].kind = "returned" =>
                LET m == exported[i][n].value
                    own == OwnOrParent(i)
                IN  /\ m.delivery_type = own.option
                    /\ m.copies = own.row.copies
                    /\ m.annotation = own.row.annotation
                    /\ m.special_instructions = own.row.special_instructions
                    /\ own.option # MEDIA_DELIVERY =>
                        m.protocol = own.row.protocol

\* An item with its own option, which differs from its order's in kind, in
\* copies and in protocol, and an item without one: both were dispatched and
\* exported.
C17_Witness ==
    \E o \in Orders : \E i, j \in OrderItems(BatchOf(o)) :
        /\ items[i].delivery = ONLINE_DATA_ACCESS
        /\ orders[o].delivery = ONLINE_DATA_DELIVERY
        /\ delivery_details[<<"item", i>>].copies
            # delivery_details[<<"order", o>>].copies
        /\ delivery_details[<<"item", i>>].protocol
            # delivery_details[<<"order", o>>].protocol
        /\ items[j].delivery = None
        /\ chords[o] # <<>>
        /\ chords[o][1].jobs[i].task = "process_online_data_access_item"
        /\ chords[o][1].jobs[j].task = "process_online_data_delivery_item"
        /\ exported[i] # <<>> /\ exported[i][1].kind = "returned"
        /\ exported[j] # <<>> /\ exported[j][1].kind = "returned"

\* Neither the item nor its order has a delivery option.
Unresolvable(i) ==
    /\ items[i].delivery = None
    /\ orders[OrderOf(items[i].batch)].delivery = None

\* C18: the export of the delivery options of an item that has no delivery
\* option, and whose order has none, raises; the dispatch of a batch that
\* has such an item schedules no job and no recomputation, and leaves every
\* item of the batch in its status, without a file.
C18_MissingDeliveryOption ==
    \A o \in Orders :
        /\ \A i \in OrderItems(BatchOf(o)) :
            Unresolvable(i) =>
                \A n \in DOMAIN exported[i] : exported[i][n].kind = "raised"
        /\ (\E i \in OrderItems(BatchOf(o)) : Unresolvable(i)) =>
            /\ chords[o] = <<>>
            /\ updates[o] = <<>>
            /\ \A t \in DOMAIN batchTasks[o] :
                batchTasks[o][t] \in {"queued", "raised"}
            /\ \A i \in OrderItems(BatchOf(o)) : items[i].status = SUBMITTED
            /\ BatchFiles(BatchOf(o)) = {}

\* The dispatch of a batch of two items has raised: one item has its own
\* option, the other has none and neither has the order; the export for
\* the latter has raised.
C18_Witness ==
    \E o \in Orders : \E i, j \in OrderItems(BatchOf(o)) :
        /\ Unresolvable(i)
        /\ items[j].delivery # None
        /\ batchTasks[o] # <<>>
        /\ batchTasks[o][1] = "raised"
        /\ exported[i] # <<>>
        /\ exported[i][1].kind = "raised"

\* C19: the mapping export_delivery_options returns has the keys copies,
\* annotation, special_instructions and delivery_type, the key protocol
\* for online data access and online data delivery, the key medium for
\* media delivery; two calls for the same item return the same mapping.
C19_DeliveryParameterShape ==
    \A i \in Items : \A n \in DOMAIN exported[i] :
        exported[i][n].kind = "returned" =>
            LET m == exported[i][n].value
            IN  /\ {"copies", "annotation", "special_instructions",
                    "delivery_type"} \subseteq DOMAIN m
                /\ m.delivery_type \in {"onlinedataaccess",
                                        "onlinedatadelivery"}
                    => "protocol" \in DOMAIN m
                /\ m.delivery_type = "mediadelivery" => "medium" \in DOMAIN m
                /\ \A n2 \in DOMAIN exported[i] :
                    exported[i][n2] = exported[i][n]

(***************************************************************************)
(* The eligibility of a file for deletion, under SpecDeletable.            *)
(***************************************************************************)
\* C20: can_be_deleted is true of a file whose expires_on is in the past,
\* whatever its downloads and the preference of the user; of a file that
\* has not expired it is true if the file was downloaded and the user has
\* the preference delete_downloaded_files, and false otherwise.
C20_DeletionEligibility ==
    \A n \in DOMAIN can_delete :
        LET call == can_delete[n]
        IN  /\ oseo_file.expires_on < call.now => call.result = TRUE
            /\ oseo_file.expires_on >= call.now =>
                (call.result = TRUE <=>
                    /\ oseo_file.downloads > 0
                    /\ oseo_file.delete_downloaded_files)

\* The same file, never downloaded, was found not deletable at the time it
\* expires and deletable later.
C20_Witness ==
    /\ oseo_file.downloads = 0
    /\ Len(can_delete) = 2
    /\ can_delete[1].now = oseo_file.expires_on
    /\ can_delete[1].result = FALSE
    /\ can_delete[2].now > oseo_file.expires_on
    /\ can_delete[2].result = TRUE

(***************************************************************************)
(* The sweeps and the life cycle of the files.                             *)
(***************************************************************************)
\* The clean_files call of deletion d returns or raises in this step.
CleanReturns(d) ==
    /\ deletions[d].pc = "cleaning"
    /\ deletions'[d].pc # "cleaning"

LastCleanCall == clean_calls'[Len(clean_calls')]

\* C21: when clean_files raises during delete_batch, every file of the batch
\* that was available before the call is still available afterwards, a
\* cleaning error e-mail is sent, and no deletion is applied again.
C21_SweepDeletionFailure ==
    [][\A d \in DOMAIN deletions :
        (CleanReturns(d) /\ LastCleanCall.raised)
        => /\ \A f \in BatchFiles(deletions[d].batch) :
                f.available => f \in files'
           /\ Len(alerts') = Len(alerts) + 1
           /\ Len(deletions') = Len(deletions)
           /\ Len(clean_calls') = Len(clean_calls) + 1]_vars

\* The number of delete_batch tasks this step applies for batch b.
DispatchedFor(b) ==
    Cardinality({n \in (Len(deletions) + 1)..Len(deletions') :
                    deletions'[n].batch = b})

ExpiredSweepRuns ==
    /\ Len(sweeps') = Len(sweeps) + 1
    /\ sweeps'[Len(sweeps')].task = "delete_expired_order_items"

NoDuplicate(seq) ==
    \A m, n \in DOMAIN seq : seq[m] = seq[n] => m = n

\* What a delete_batch task targets when it starts.
Targets(d) ==
    deletions'[d].to_delete =
        IF deletions[d].expired_files_only
            THEN {f \in files : /\ items[f.order_item].batch =
                                        deletions[d].batch
                                 /\ f.expires_on < now}
            ELSE {f \in files : items[f.order_item].batch =
                                    deletions[d].batch}

\* One clean_files call for the deletion, with every distinct URL of the
\* targeted files once.
CleansOnce(d) ==
    /\ clean_calls' = Append(clean_calls, LastCleanCall)
    /\ LastCleanCall.deletion = d
    /\ \A n \in DOMAIN clean_calls : clean_calls[n].deletion # d
    /\ NoDuplicate(LastCleanCall.file_urls)
    /\ Range(LastCleanCall.file_urls) =
            {f.url : f \in deletions[d].to_delete}

\* On success, the targeted files and no other become not available; in the
\* expired-only mode a file that has not expired is left as it is.
MarksTargeted(d) ==
    /\ \A f \in deletions[d].to_delete :
        [f EXCEPT !.available = FALSE] \in files'
    /\ \A f \in files :
        f.id \notin {g.id : g \in deletions[d].to_delete} => f \in files'
    /\ deletions[d].expired_files_only =>
        \A f \in files : ~(f.expires_on < now) => f \in files'

DeletionSucceeds(d) ==
    /\ (deletions[d].pc = "queued" /\ deletions'[d].pc = "cleaning")
        => Targets(d)
    /\ CleanReturns(d) => CleansOnce(d)
    /\ (CleanReturns(d) /\ ~LastCleanCall.raised) => MarksTargeted(d)

\* C22, as stated: the scheduled sweep applies one delete_batch per batch
\* that has an available file and none for another batch; each delete_batch
\* calls clean_files once with every distinct targeted URL once, and on
\* success exactly the targeted files become not available.
C22_Original ==
    [][/\ ExpiredSweepRuns =>
            \A b \in Batches :
                DispatchedFor(b) =
                    IF \E f \in files : /\ items[f.order_item].batch = b
                                        /\ f.available
                        THEN 1 ELSE 0
       /\ \A d \in DOMAIN deletions : DeletionSucceeds(d)]_vars

\* C22, amended: the scheduled sweep applies one delete_batch per batch of an
\* enabled order type that has an available file and none for another
\* batch; each delete_batch calls clean_files once with every distinct
\* targeted URL once, and on success exactly the targeted files become not
\* available.
C22_SweepSuccess ==
    [][/\ ExpiredSweepRuns =>
            \A b \in Batches :
                DispatchedFor(b) =
                    IF /\ order_type_enabled
                       /\ \E f \in files : /\ items[f.order_item].batch = b
                                           /\ f.available
                        THEN 1 ELSE 0
       /\ \A d \in DOMAIN deletions : DeletionSucceeds(d)]_vars

\* The scheduled sweep has applied a deletion which, in the expired-only
\* mode, has succeeded on the one expired file of its batch and has left the
\* other file of the batch available.
C22_Witness ==
    \E d \in DOMAIN deletions :
        /\ \E s \in DOMAIN sweeps :
            /\ sweeps[s].task = "delete_expired_order_items"
            /\ deletions[d].batch \in sweeps[s].batches
        /\ deletions[d].pc = "done"
        /\ deletions[d].expired_files_only
        /\ Cardinality(deletions[d].to_delete) = 1
        /\ \E n \in DOMAIN clean_calls :
            /\ clean_calls[n].deletion = d
            /\ ~clean_calls[n].raised
            /\ Len(clean_calls[n].file_urls) = 1
        /\ \E f \in BatchFiles(deletions[d].batch) :
            /\ f.available
            /\ ~(f.expires_on < now)
        /\ \E f \in BatchFiles(deletions[d].batch) :
            /\ ~f.available
            /\ f.id \in {g.id : g \in deletions[d].to_delete}

\* C23: a file row that is not available is never available again.
C23_NoResurrection ==
    [][\A f \in files :
        ~f.available =>
            \A g \in files' : g.id = f.id => ~g.available]_vars

\* A file of an order item is not available, after a sweep, while the file
\* the packaging created for the item since is available.
C23_Witness ==
    \E f, g \in files :
        /\ f.order_item = g.order_item
        /\ ~f.available
        /\ g.available
        /\ g.url = PackedUrl

\* The calls of the processor in progress on files of batch b: the
\* clean_files calls that were given a file, and the package_files calls.
CallsInProgress(b) ==
    Cardinality({d \in DOMAIN deletions :
                    /\ deletions[d].batch = b
                    /\ deletions[d].pc = "cleaning"
                    /\ deletions[d].to_delete # {}})
    + Cardinality({u \in DOMAIN updates[OrderOf(b)] :
                    updates[OrderOf(b)][u].pc = "packaging"})

\* C27: at no time are two packaging or deletion calls of the item processor
\* in progress for the files of one batch.
C27_ProcessorTargetExclusion ==
    \A o \in Orders : CallsInProgress(BatchOf(o)) <= 1

(***************************************************************************)
(* The statuses under repeated dispatch and concurrent tasks.              *)
(***************************************************************************)
TerminalStatuses == {COMPLETED, FAILED, TERMINATED, DOWNLOADED, CANCELLED}

\* C24: an order item whose status is terminal keeps it, whatever is
\* dispatched and run (no retry is ever requested here).
C24_TerminalItemSticky ==
    [][\A i \in Items :
        items[i].status \in TerminalStatuses
            => items'[i].status = items[i].status]_vars

\* batch.status() on the rows its of the order items.
RollupOf(its, b) ==
    LET item_statuses == {its[i].status : i \in {j \in Items : its[j].batch = b}}
    IN  Status(item_statuses, SomeOrder(item_statuses))

\* C25: a processing task that writes the order leaves it with the status
\* that is the rollup of the statuses of the order items of its batch.
C25_OrderStatusDerived ==
    [][\A o \in Orders :
        orders'[o] # orders[o]
            => orders'[o].status = RollupOf(items', BatchOf(o))]_vars

\* C26: at most one update_product_order_status is in progress for the
\* batch of an order that has order items.
C26_RecomputationExclusion ==
    \A o \in Orders :
        OrderItems(BatchOf(o)) # {} =>
            Cardinality({u \in DOMAIN updates[o] :
                            UpdateRunning(updates[o][u])}) <= 1

\* The item job (k, i) saves the order item at the end of the task.
ItemJobSaves(o, k, i) ==
    /\ chords[o][k].jobs[i].state = "running"
    /\ chords'[o][k].jobs[i].state = "succeeded"

\* The update u saves the order.
UpdateSaves(o, u) ==
    /\ UpdateRunning(updates[o][u])
    /\ orders'[o] # orders[o]

\* C28: a task saves an order item or an order only if the status of the
\* row is still the one of the copy the task holds.
C28_AtomicStatusTransitions ==
    [][/\ \A o \in Orders : \A k \in DOMAIN chords[o] :
            \A i \in DOMAIN chords[o][k].jobs :
                ItemJobSaves(o, k, i) =>
                    items[i].status = chords[o][k].jobs[i].order_item.status
       /\ \A o \in Orders : \A u \in DOMAIN updates[o] :
            UpdateSaves(o, u) =>
                orders[o].status = updates[o][u].order.status]_vars

\* C29: an order item whose processor call does not return becomes FAILED.
C29_Timeout ==
    \A o \in Orders : \A i \in Items :
        (\E k \in DOMAIN chords[o] :
            /\ i \in DOMAIN chords[o][k].jobs
            /\ chords[o][k].jobs[i].state = "blocked")
        ~> (items[i].status = FAILED)

\* C30: no item job, of any delivery type, ends by raising: the job of an
\* item whose processing met an error has saved the item as FAILED with the
\* text of the error, and the update_product_order_status of the chord is
\* not given up.
C30_ErrorsStayInsideJob ==
    \A o \in Orders : \A k \in DOMAIN chords[o] :
        /\ \A i \in DOMAIN chords[o][k].jobs :
            LET job == chords[o][k].jobs[i]
            IN  /\ job.state # "failed"
                /\ (job.state = "succeeded" /\ job.outcome.kind = "raised")
                    => /\ job.order_item.status = FAILED
                       /\ job.order_item.additional_status_info =
                            job.outcome.text
        /\ updates[o][BodyOf(o, k)].pc # "error"

RecomputesFailedOrder(o, u) ==
    /\ updates[o][u].pc = "finishing"
    /\ updates'[o][u].pc # "finishing"
    /\ updates[o][u].old_order_status = FAILED
    /\ orders[o].status = FAILED

\* C33: a recomputation of a FAILED order that finds the status of the batch
\* is not FAILED sets the status of the order to the status of the batch;
\* one that finds the batch FAILED leaves the order FAILED.
C33_LeavingFailed ==
    [][\A o \in Orders : \A u \in DOMAIN updates[o] :
        RecomputesFailedOrder(o, u) =>
            LET new_order_status == BatchStatus(BatchOf(o))
            IN  /\ new_order_status = FAILED => orders'[o].status = FAILED
                /\ new_order_status \in Statuses \ {FAILED} =>
                    /\ orders'[o].status = new_order_status
                    /\ updates'[o][u].pc = "done"]_vars

\* A recomputation that read the order as FAILED has set it COMPLETED, after
\* the item that had failed was processed again.
C33_Witness ==
    \E o \in Orders : \E u \in DOMAIN updates[o] :
        /\ updates[o][u].old_order_status = FAILED
        /\ updates[o][u].pc = "done"
        /\ orders[o].status = COMPLETED
        /\ \E k \in DOMAIN chords[o] : \E i \in DOMAIN chords[o][k].jobs :
            /\ chords[o][k].jobs[i].order_item.status = FAILED
            /\ items[i].status = COMPLETED

(***************************************************************************)
(* The statuses an item job persists, the files it creates, and the        *)
(* packaging that fails, under Spec.                                       *)
(***************************************************************************)
\* The job (k, i) saves the item for the first time: lines 121-124.
JobBegan(o, k, i) ==
    /\ chords[o][k].jobs[i].state = "queued"
    /\ chords'[o][k].jobs[i].state = "running"

\* C34: an item job first persists the item as IN_PRODUCTION with the text
\* "Item is being processed", in a step that comes before the call of the
\* processor; the step with the call of the processor then persists it as
\* COMPLETED or as FAILED; the item of a job that has ended is not
\* IN_PRODUCTION, and its status does not change any more.
C34_ItemJobStatusSequence ==
    [][\A o \in Orders : \A k \in DOMAIN chords[o] :
        \A i \in DOMAIN chords[o][k].jobs :
            LET job == chords[o][k].jobs[i]
            IN  /\ JobBegan(o, k, i) =>
                    /\ items'[i].status = IN_PRODUCTION
                    /\ items'[i].additional_status_info =
                            "Item is being processed"
                    /\ chords'[o][k].jobs[i].outcome.kind = "none"
                /\ JobRan(o, k, i) =>
                    /\ items[i].status = IN_PRODUCTION
                    /\ items'[i].status \in {COMPLETED, FAILED}
                    /\ chords'[o][k].jobs[i].outcome.kind # "none"
                /\ (job.task = "process_online_data_access_item"
                        /\ job.state = "succeeded") =>
                    /\ items[i].status \in {COMPLETED, FAILED}
                    /\ items'[i].status = items[i].status]_vars

\* Of the two item jobs of a dispatch one has ended with its item COMPLETED
\* and one with its item FAILED, the order having been recomputed since.
C34_Witness ==
    \E o \in Orders : \E k \in DOMAIN chords[o] :
        \E i, j \in DOMAIN chords[o][k].jobs :
            /\ chords[o][k].jobs[i].state = "succeeded"
            /\ chords[o][k].jobs[j].state = "succeeded"
            /\ items[i].status = COMPLETED
            /\ items[j].status = FAILED
            /\ updates[o][BodyOf(o, k)].pc = "done"

\* C36: an item job that ends with its item COMPLETED has created a file
\* that is owned by the item and available; a job whose processor call
\* returned an empty list of URLs ends with its item FAILED, the detail the
\* processor returned as additional status info, and has created no file.
C36_NoCompletedItemWithoutFile ==
    [][\A o \in Orders : \A k \in DOMAIN chords[o] :
        \A i \in DOMAIN chords[o][k].jobs :
            JobRan(o, k, i) =>
                LET outcome == chords'[o][k].jobs[i].outcome
                IN  /\ items'[i].status = COMPLETED =>
                        \E f \in files' \ files :
                            /\ f.order_item = i
                            /\ f.available
                    /\ (outcome.kind = "returned" /\ outcome.urls = <<>>) =>
                        /\ items'[i].status = FAILED
                        /\ items'[i].additional_status_info = outcome.text
                        /\ files' = files]_vars

\* One job of the dispatch has ended with its item COMPLETED and a file, the
\* other, whose processor call returned an empty list, with its item FAILED
\* and no file.
C36_Witness ==
    \E o \in Orders : \E k \in DOMAIN chords[o] :
        \E i, j \in DOMAIN chords[o][k].jobs :
            /\ chords[o][k].jobs[i].state = "succeeded"
            /\ items[i].status = COMPLETED
            /\ \E f \in FilesOf(files, i) : f.available
            /\ chords[o][k].jobs[j].state = "succeeded"
            /\ chords[o][k].jobs[j].outcome.kind = "returned"
            /\ chords[o][k].jobs[j].outcome.urls = <<>>
            /\ items[j].status = FAILED
            /\ items[j].additional_status_info \in Details
            /\ FilesOf(files, j) = {}

\* C37: the step in which the packaging of the batch fails leaves every
\* file row and every order item as it was.
C37_PackagingFailureLeavesFiles ==
    [][\A o \in Orders : \A u \in DOMAIN updates[o] :
        (/\ updates[o][u].pc = "packaging"
         /\ updates'[o][u].pc = "failed")
        => /\ files' = files
           /\ items' = items]_vars

\* The packaging of a batch of two COMPLETED items has failed: the order is
\* FAILED and each item has the file its job created.
C37_Witness ==
    \E o \in Orders : \E u \in DOMAIN updates[o] :
        /\ updates[o][u].pc = "failed"
        /\ orders[o].status = FAILED
        /\ orders[o].additional_status_info.text \in PackagingErrors
        /\ Cardinality(OrderItems(BatchOf(o))) = 2
        /\ \A i \in OrderItems(BatchOf(o)) :
            /\ items[i].status = COMPLETED
            /\ \E f \in FilesOf(files, i) : f.available /\ f.url = "a"

(***************************************************************************)
(* The batch available notifications, under SpecNotify.                    *)
(***************************************************************************)
\* A batch available e-mail is sent for the batch of order o in this step.
BatchAvailableSent(o) ==
    /\ Len(outbox'[o]) = Len(outbox[o]) + 1
    /\ outbox'[o][Len(outbox'[o])].kind \in
            {"subscription_batch_available", "product_batch_available"}

\* C32: a batch available e-mail is sent for a batch that has order items
\* only when every item job of the batch has finished and the status of the
\* batch is COMPLETED; none is sent for a batch that has a FAILED item.
C32_BatchReadyNotification ==
    [][\A o \in Orders :
        (BatchAvailableSent(o) /\ OrderItems(BatchOf(o)) # {})
        => /\ \A k \in DOMAIN chords[o] : HeaderDone(chords[o][k].jobs)
           /\ BatchStatus(BatchOf(o)) = COMPLETED
           /\ \A i \in OrderItems(BatchOf(o)) :
                items[i].status # FAILED]_vars

(***************************************************************************)
(* The rows a rejected admission leaves, under SpecAdmission.              *)
(***************************************************************************)
\* C35: once create_batch has raised for a repeated collection, the new
\* batch is not a batch of the order and has no order item left in the
\* store, the order items created before the repeated one included.
C35_RejectedAdmissionAdmitsNothing ==
    admission.pc = "raised" =>
        /\ ~admission.attached
        /\ admission.order_items = <<>>

(***************************************************************************)
(* The access to the results of a batch, under SpecResultAccess.           *)
(***************************************************************************)
\* C38: a call of get_completed_files on the batch of an order whose
\* packaging is zip returns at most one file, a file it returns is the
\* file of the package and not a file of an item job, and it returns no
\* file when the status of the batch is not COMPLETED.
C38_ZipResultAccess ==
    \A n \in DOMAIN completed_files :
        LET call == completed_files[n]
        IN  (orders[OrderOf(call.batch)].packaging = "zip"
                /\ call.kind = "returned")
            => /\ Len(call.completed) <= 1
               /\ \A m \in DOMAIN call.completed :
                    call.completed[m].file.url = PackedUrl
               /\ call.status # COMPLETED => call.completed = <<>>

(***************************************************************************)
(* The progress of a product order, under SpecProgress.                    *)
(***************************************************************************)
\* process_product_order was called for order o; every order item of its
\* batch has a delivery type, its own or that of the order, and for one of
\* them it is not online data access.
Invoked(o) ==
    /\ batchTasks[o] # <<>>
    /\ \A i \in OrderItems(BatchOf(o)) :
        SelectedDeliveryOption(i) \in DeliveryOptions
    /\ \E i \in OrderItems(BatchOf(o)) :
        SelectedDeliveryOption(i) # ONLINE_DATA_ACCESS

\* C39: a product order that process_product_order was called for, and
\* whose batch has an order item (of any delivery type, here one of online
\* data delivery or of media delivery), is eventually COMPLETED or FAILED.
C39_ProductOrderProgress ==
    \A o \in Orders :
        Invoked(o) ~> (orders[o].status \in {COMPLETED, FAILED})

====
